---- MODULE Spec2Model ----
(***************************************************************************)
(* A model of prim indexing (pxr/usd/pcp/primIndex.cpp): the task loop of  *)
(* Pcp_BuildPrimIndex, the arc evaluators it dispatches to, _AddArc and    *)
(* the culling and child-name passes that read the finished graph.         *)
(*                                                                         *)
(* The top-level build is the state machine: one action per task type,     *)
(* each performing the whole handler.  Builds that the code runs by        *)
(* recursion (the ancestral build and the sub-builds started by _AddArc)   *)
(* are computed by the same operators, applied recursively.                *)
(***************************************************************************)
EXTENDS Integers, Sequences, FiniteSets, TLC

VARIABLES
    inputs,        \* PcpPrimIndexInputs and the site to index
    graph,         \* outputs->primIndex graph: the node pool
    tasks,         \* Pcp_PrimIndexer::tasks, a heap
    taskUniq,      \* Pcp_PrimIndexer::taskUniq
    allErrors,     \* outputs->allErrors
    errors,        \* the prim index's local errors
    hasPayloads,   \* the graph's has-payloads bit
    payloadState,  \* outputs->payloadState
    pc,            \* where PcpComputePrimIndex stands
    dispatched,    \* history: the tasks popped so far
    calls,         \* history: the _AddArc calls of the last step
    diverged,      \* history: a nested build ran past a bound
    elided,        \* history: the nodes _EvalNodeRelocations has elided
    cullBroken,    \* history: a nested build popped a task while a culled
                   \* node had a child that was not culled
    other          \* a second PcpComputePrimIndex running beside this one

vars == << inputs, graph, tasks, taskUniq, allErrors, errors, hasPayloads,
           payloadState, pc, dispatched, calls, diverged, elided, cullBroken,
           other >>

\* A local variable of the code: v is computed, then the rest, Op, runs with it.
With(v, Op(_)) == CASE v = v -> Op(v)

\* The routines that call one another recursively (adding an arc builds the
\* index of the arc's target, whose tasks add arcs) are entered through
\* Call, which stands for the call stack; so are the scene's tables.
RECURSIVE Call(_, _)

(***************************************************************************)
(* Paths.  A path is a sequence of components; a component is a triple     *)
(* <<kind, a, b>> with kind "n" for a prim name a and kind "v" for the     *)
(* variant selection {a=b}.  The absolute root "/" is the empty sequence.  *)
(***************************************************************************)
N(s) == <<"n", s, "">>

V(vset, sel) == <<"v", vset, sel>>

AbsoluteRootPath == << >>

EmptyPath == << <<"!", "", "">> >>

IsEmptyPath(p) == p = EmptyPath

GetPathElementCount(p) == IF IsEmptyPath(p) THEN 0 ELSE Len(p)

HasPrefix(p, q) ==
    /\ ~IsEmptyPath(p)
    /\ ~IsEmptyPath(q)
    /\ Len(q) <= Len(p)
    /\ SubSeq(p, 1, Len(q)) = q

ReplacePrefix(p, old, new) ==
    IF ~HasPrefix(p, old) THEN p
    ELSE IF IsEmptyPath(new) THEN EmptyPath
    ELSE new \o SubSeq(p, Len(old) + 1, Len(p))

GetParentPath(p) ==
    IF IsEmptyPath(p) \/ p = AbsoluteRootPath THEN EmptyPath
    ELSE SubSeq(p, 1, Len(p) - 1)

IsNameComponent(c) == c[1] = "n"

StripAllVariantSelections(p) ==
    IF IsEmptyPath(p) THEN p ELSE SelectSeq(p, IsNameComponent)

IsRootPrimPath(p) == ~IsEmptyPath(p) /\ Len(p) = 1 /\ p[1][1] = "n"

IsPrimVariantSelectionPath(p) ==
    ~IsEmptyPath(p) /\ Len(p) > 0 /\ p[Len(p)][1] = "v"

ContainsPrimVariantSelection(p) ==
    ~IsEmptyPath(p) /\ \E i \in 1..Len(p) : p[i][1] = "v"

AppendChild(p, name) == p \o << N(name) >>

AppendVariantSelection(p, vset, sel) == p \o << V(vset, sel) >>

GetNameToken(p) ==
    IF IsEmptyPath(p) \/ Len(p) = 0 THEN "" ELSE p[Len(p)][2]

RECURSIVE GetPrimPath(_)
GetPrimPath(p) ==
    IF IsPrimVariantSelectionPath(p) THEN GetPrimPath(GetParentPath(p)) ELSE p

NonVariantPathElementCount(p) == Len(StripAllVariantSelections(p))

(***************************************************************************)
(* Map functions: a set of <<source, target>> path pairs; the pair         *)
(* <<"/", "/">> is the root identity.                                      *)
(***************************************************************************)
RootIdentityPair == <<AbsoluteRootPath, AbsoluteRootPath>>

\* A pair is redundant when the closest enclosing pair maps it the same way.
RECURSIVE PairImpliedBy(_, _, _, _)
PairImpliedBy(pairs, self, s, t) ==
    IF IsEmptyPath(s) \/ IsEmptyPath(t) THEN FALSE
    ELSE IF <<s, t>> \in pairs \ {self} THEN TRUE
    ELSE IF \E q \in pairs \ {self} : q[1] = s \/ q[2] = t THEN FALSE
    ELSE IF s = AbsoluteRootPath \/ t = AbsoluteRootPath THEN FALSE
    ELSE IF s[Len(s)] # t[Len(t)] THEN FALSE
    ELSE PairImpliedBy(pairs, self, GetParentPath(s), GetParentPath(t))

PairIsRedundant(pairs, pr) ==
    /\ pr[1] # AbsoluteRootPath
    /\ pr[2] # AbsoluteRootPath
    /\ pr[1][Len(pr[1])] = pr[2][Len(pr[2])]
    /\ PairImpliedBy(pairs, pr, GetParentPath(pr[1]), GetParentPath(pr[2]))

Canonicalize(pairs) == {pr \in pairs : ~PairIsRedundant(pairs, pr)}

MapIdentity == {RootIdentityPair}

MapCreate(pairs) == Canonicalize(pairs)

HasRootIdentity(f) == RootIdentityPair \in f

AddRootIdentity(f) == Canonicalize(f \cup {RootIdentityPair})

MapInverse(f) == {<<pr[2], pr[1]>> : pr \in f}

\* _Map: the longest matching source prefix decides; the result is dropped
\* when a longer target prefix of another pair claims it.
MapPath(f, p) ==
    With({pr \in f : HasPrefix(p, pr[1])}, LAMBDA cands :
        IF IsEmptyPath(p) \/ cands = {} THEN EmptyPath
        ELSE LET best == CHOOSE pr \in cands :
                            \A o \in cands : Len(o[1]) <= Len(pr[1])
                 res == ReplacePrefix(p, best[1], best[2])
             IN  IF \E o \in f : /\ o # best
                                 /\ HasPrefix(res, o[2])
                                 /\ Len(o[2]) > Len(best[2])
                 THEN EmptyPath
                 ELSE res)

MapSourceToTarget(f, p) == MapPath(f, p)

MapTargetToSource(f, p) == MapPath(MapInverse(f), p)

\* Compose(f, g) maps a source path of g to a target path of f.
MapCompose(f, g) ==
    IF f = MapIdentity THEN g
    ELSE IF g = MapIdentity THEN f
    ELSE Canonicalize(
           {pr \in {<<q[1], MapSourceToTarget(f, q[2])>> : q \in g} :
                ~IsEmptyPath(pr[2])}
           \cup
           {pr \in {<<MapTargetToSource(g, q[1]), q[2]>> : q \in f} :
                ~IsEmptyPath(pr[1])})

(***************************************************************************)
(* Scene description.  A layer stack is named within its scene and holds   *)
(* one layer.  A prim spec carries the fields the indexer reads.           *)
(***************************************************************************)
P1(a) == << N(a) >>

P2(a, b) == << N(a), N(b) >>

P3(a, b, c) == << N(a), N(b), N(c) >>

Arc(asset, prim) == [asset |-> asset, prim |-> prim]

Sp(ls, path) ==
    [ls |-> ls, path |-> path, refs |-> << >>, payloads |-> << >>,
     inherits |-> << >>, specializes |-> << >>, vsets |-> << >>,
     vsel |-> {}, perm |-> "Public", symmetry |-> FALSE]

\* payloadMode: "null" (no include set), "set" (the include set decides),
\* "predTrue" / "predFalse" (a predicate decides).
\* arcCapacity: the sibling numbers a node of the graph can hold.
\* newDefaultStandin: the environment setting of the "standin" behaviour.
\* sessionSelections: <<layer stack, path, vset, vsel>> for the selections
\* among the specs that a session layer authors.
NoCaseExtras ==
    [relocs |-> {}, fallbacks |-> << >>, defaultPrim |-> {}, usd |-> FALSE,
     payloadMode |-> "set", includedPayloads |-> {}, muted |-> {},
     arcCapacity |-> 1024, newDefaultStandin |-> TRUE,
     sessionSelections |-> {}]

AllLayerStacks == {"root", "a", "b"}

\* A layer stack is identified by the scene it belongs to and its name.
LayerStack(c, name) == [case |-> c, name |-> name]

NoLayerStack == LayerStack(0, "")

(***************************************************************************)
(* The prim index graph: a pool of nodes, node 1 being the root.           *)
(***************************************************************************)
NoNode == 0

RootIdx == 1

MkSite(ls, path) == [ls |-> ls, path |-> path]

NoSite == MkSite(NoLayerStack, EmptyPath)

MkArc(type, parent, origin, mapToParent, namespaceDepth, siblingNum) ==
    [type |-> type, parent |-> parent, origin |-> origin,
     mapToParent |-> mapToParent, namespaceDepth |-> namespaceDepth,
     siblingNum |-> siblingNum]

MkNode(site, arc) ==
    [arcType |-> arc.type, ls |-> site.ls, path |-> site.path,
     parent |-> arc.parent, origin |-> arc.origin,
     mapToParent |-> arc.mapToParent,
     namespaceDepth |-> arc.namespaceDepth, siblingNum |-> arc.siblingNum,
     inert |-> FALSE, culled |-> FALSE, restricted |-> FALSE,
     hasSpecs |-> FALSE, hasSymmetry |-> FALSE, permission |-> "Public",
     dueToAncestor |-> FALSE]

RootArc == MkArc("Root", NoNode, NoNode, MapIdentity, 0, 0)

\* PcpPrimIndex_Graph::New: a graph holding only a root node.
NewGraph(site) == << MkNode(site, RootArc) >>

NodeSite(g, n) == MkSite(g[n].ls, g[n].path)

ChildSet(g, n) == {c \in 1..Len(g) : g[c].parent = n}

\* Rank of an arc type among siblings, strongest first.
ArcRank(g, c) ==
    CASE g[c].arcType = "Root" -> 0
      [] g[c].arcType = "Relocate" -> 1
      [] g[c].arcType = "Inherit" -> 2
      [] g[c].arcType = "Specialize" ->
            IF g[c].parent = RootIdx THEN 7 ELSE 3
      [] g[c].arcType = "Variant" -> 4
      [] g[c].arcType = "Reference" -> 5
      [] g[c].arcType = "Payload" -> 6

SiblingStronger(g, a, b) ==
    \/ ArcRank(g, a) < ArcRank(g, b)
    \/ /\ ArcRank(g, a) = ArcRank(g, b)
       /\ \/ g[a].siblingNum < g[b].siblingNum
          \/ g[a].siblingNum = g[b].siblingNum /\ a < b

RECURSIVE SortSiblings(_, _)
SortSiblings(g, S) ==
    IF S = {} THEN << >>
    ELSE LET m == CHOOSE x \in S : \A y \in S \ {x} : SiblingStronger(g, x, y)
         IN  << m >> \o SortSiblings(g, S \ {m})

\* The children of n, strongest first.
Children(g, n) == Call("SortSiblings", << g, ChildSet(g, n) >>)

RECURSIVE SubtreeOrder(_, _)
RECURSIVE SubtreesOrder(_, _)
SubtreeOrder(g, n) == << n >> \o SubtreesOrder(g, Children(g, n))

SubtreesOrder(g, cs) ==
    IF cs = << >> THEN << >>
    ELSE SubtreeOrder(g, Head(cs)) \o SubtreesOrder(g, Tail(cs))

\* All nodes, strongest first.
StrengthOrder(g) == SubtreeOrder(g, RootIdx)

SeqIndexOf(q, x) == CHOOSE i \in 1..Len(q) : q[i] = x

\* -1 when a is stronger than b, 1 when weaker, 0 when the same node.
PcpCompareNodeStrength(g, a, b) ==
    IF a = b THEN 0
    ELSE LET order == StrengthOrder(g)
         IN  IF SeqIndexOf(order, a) < SeqIndexOf(order, b) THEN -1 ELSE 1

RECURSIVE AncestorsOf(_, _)
AncestorsOf(g, n) ==
    IF n = NoNode \/ g[n].parent = NoNode THEN {}
    ELSE {g[n].parent} \cup AncestorsOf(g, g[n].parent)

SubtreeSet(g, n) == {m \in 1..Len(g) : m = n \/ n \in AncestorsOf(g, m)}

GetDepthBelowIntroduction(g, n) ==
    IF g[n].parent = NoNode THEN 0
    ELSE NonVariantPathElementCount(g[g[n].parent].path) - g[n].namespaceDepth

RECURSIVE PathDropLevels(_, _)
PathDropLevels(p, depth) ==
    IF depth <= 0 THEN p
    ELSE PathDropLevels(GetParentPath(GetPrimPath(p)), depth - 1)

GetPathAtIntroduction(g, n) ==
    PathDropLevels(g[n].path, GetDepthBelowIntroduction(g, n))

IsDueToAncestor(g, n) == g[n].dueToAncestor

\* A node contributes specs unless it is inert, culled or restricted.
CanContributeSpecs(g, n) ==
    ~g[n].inert /\ ~g[n].culled /\ ~g[n].restricted

RECURSIVE GetMapToRoot(_, _)
GetMapToRoot(g, n) ==
    IF g[n].parent = NoNode THEN MapIdentity
    ELSE MapCompose(GetMapToRoot(g, g[n].parent), g[n].mapToParent)

\* The first node at the given site, by pool index.
GetNodeUsingSite(g, site) ==
    With({n \in 1..Len(g) : NodeSite(g, n) = site}, LAMBDA hits :
        IF hits = {} THEN NoNode
        ELSE CHOOSE n \in hits : \A m \in hits : n <= m)

InsertChild(g, site, arc) == Append(g, MkNode(site, arc))

ShiftIdx(i, off) == IF i = NoNode THEN NoNode ELSE i + off

\* Graft a finished graph beneath arc.parent: its root takes the arc.
InsertChildSubgraph(g, sub, arc) ==
    LET off == Len(g)
        graft(k) ==
            IF k = RootIdx
            THEN [sub[k] EXCEPT !.arcType = arc.type,
                                !.parent = arc.parent,
                                !.origin = arc.origin,
                                !.mapToParent = arc.mapToParent,
                                !.namespaceDepth = arc.namespaceDepth,
                                !.siblingNum = arc.siblingNum]
            ELSE [sub[k] EXCEPT !.parent = ShiftIdx(sub[k].parent, off),
                                !.origin = ShiftIdx(sub[k].origin, off)]
    IN  g \o [k \in 1..Len(sub) |-> graft(k)]

AppendChildNameToAllSites(g, name) ==
    [k \in 1..Len(g) |-> [g[k] EXCEPT !.path = AppendChild(g[k].path, name)]]

\* Finalize: drop the culled nodes that keep no unculled descendant, and
\* renumber the rest in strength order.
Finalize(g) ==
    With({n \in 1..Len(g) :
             \A m \in SubtreeSet(g, n) : g[m].culled}, LAMBDA erased :
    With(SelectSeq(StrengthOrder(g), LAMBDA n : n \notin erased), LAMBDA keep :
    LET new(i) == IF i = NoNode \/ i \in erased THEN NoNode
                  ELSE SeqIndexOf(keep, i)
    IN
        [k \in 1..Len(keep) |->
            [g[keep[k]] EXCEPT !.parent = new(g[keep[k]].parent),
                               !.origin = new(g[keep[k]].origin)]]))

(***************************************************************************)
(* The scenes indexed.  Each case is a set of prim specs with the layer    *)
(* stacks' relocations, default prims and the caller's variant fallbacks.  *)
(***************************************************************************)
MkCase(specs, extras) ==
    [specs |-> specs, relocs |-> extras.relocs,
     fallbacks |-> extras.fallbacks, defaultPrim |-> extras.defaultPrim,
     usd |-> extras.usd, payloadMode |-> extras.payloadMode,
     includedPayloads |-> extras.includedPayloads, muted |-> extras.muted,
     arcCapacity |-> extras.arcCapacity,
     newDefaultStandin |-> extras.newDefaultStandin,
     sessionSelections |-> extras.sessionSelections]

\* /P references @a@</A>; both have children.
CaseReference ==
    MkCase({ [Sp("root", P1("P")) EXCEPT !.refs = << Arc("a", P1("A")) >>],
             Sp("root", P2("P", "X")),
             Sp("a", P1("A")), Sp("a", P2("A", "X")), Sp("a", P2("A", "Y")) },
           NoCaseExtras)

\* References that lead back to the referencing prim: to itself, to a
\* descendant, to an ancestor, and through another layer stack.  /L references
\* itself first and @a@</N> second.
CaseCycle ==
    MkCase({ [Sp("root", P1("A")) EXCEPT !.refs = << Arc("", P1("A")) >>],
             [Sp("root", P1("L")) EXCEPT
                 !.refs = << Arc("", P1("L")), Arc("a", P1("N")) >>],
             [Sp("a", P1("N")) EXCEPT !.inherits = << P1("NC") >>],
             [Sp("root", P1("B")) EXCEPT !.refs = << Arc("", P2("B", "C")) >>],
             Sp("root", P2("B", "C")),
             Sp("root", P1("D")),
             [Sp("root", P2("D", "E")) EXCEPT !.refs = << Arc("", P1("D")) >>],
             Sp("root", P1("H")),
             [Sp("root", P2("H", "I")) EXCEPT
                 !.refs = << Arc("a", P2("J", "K")) >>],
             [Sp("a", P1("J")) EXCEPT !.refs = << Arc("root", P2("H", "I")) >>],
             Sp("a", P2("J", "K")) },
           NoCaseExtras)

\* /P references @a@</A>, which inherits </C>; /N references </M>, whose
\* child inherits a sibling class; /Q references @a@</A> and inherits /C;
\* /L references itself and </M>.
CaseInherit ==
    MkCase({ [Sp("root", P1("P")) EXCEPT !.refs = << Arc("a", P1("A")) >>],
             Sp("root", P1("C")),
             [Sp("a", P1("A")) EXCEPT !.inherits = << P1("C") >>],
             Sp("a", P1("C")), Sp("a", P2("C", "K")),
             Sp("root", P1("M")),
             [Sp("root", P2("M", "I")) EXCEPT !.inherits = << P2("M", "C") >>],
             Sp("root", P2("M", "C")),
             [Sp("root", P1("N")) EXCEPT !.refs = << Arc("", P1("M")) >>],
             Sp("root", P2("N", "I")),
             [Sp("root", P1("Q")) EXCEPT !.refs = << Arc("a", P1("A")) >>,
                                         !.inherits = << P1("C") >>],
             [Sp("root", P1("L")) EXCEPT
                 !.refs = << Arc("", P1("L")), Arc("", P1("M")) >>],
             Sp("root", P2("L", "I")) },
           NoCaseExtras)

\* /P references @a@</A> and specializes /S; /A specializes </B>, which
\* references </D>, and references </E>.
CaseSpecialize ==
    MkCase({ [Sp("root", P1("P")) EXCEPT !.refs = << Arc("a", P1("A")) >>,
                                         !.specializes = << P1("S") >>],
             Sp("root", P1("S")), Sp("root", P2("S", "X")),
             Sp("root", P2("P", "X")),
             [Sp("a", P1("A")) EXCEPT !.specializes = << P1("B") >>,
                                      !.refs = << Arc("", P1("E")) >>],
             Sp("a", P1("E")),
             [Sp("a", P1("B")) EXCEPT !.refs = << Arc("", P1("D")) >>],
             Sp("a", P1("D")), Sp("a", P2("D", "X")) },
           NoCaseExtras)

\* Variant sets with a fallback, with an authored selection, with neither,
\* and with a selection authored inside another variant; /G has four sets,
\* of which one has a fallback whose variant selects in another.  The selected
\* variant {v=x} of /E references /F, and /E{v=x}C inherits the class /E/D.
CaseVariant ==
    MkCase({ [Sp("root", P1("V")) EXCEPT !.vsets = << "v" >>],
             Sp("root", << N("V"), V("v", "x") >>),
             Sp("root", << N("V"), V("v", "y") >>),
             Sp("root", << N("V"), V("v", "y"), N("K") >>),
             [Sp("root", P1("W")) EXCEPT !.vsets = << "v" >>,
                                         !.vsel = { << "v", "x" >> }],
             Sp("root", << N("W"), V("v", "x") >>),
             Sp("root", << N("W"), V("v", "y") >>),
             [Sp("root", P1("U")) EXCEPT !.vsets = << "w" >>],
             Sp("root", << N("U"), V("w", "a") >>),
             [Sp("root", P1("T")) EXCEPT !.vsets = << "v", "w" >>],
             [Sp("root", << N("T"), V("v", "y") >>) EXCEPT
                 !.vsel = { << "w", "a" >> }],
             Sp("root", << N("T"), V("w", "a") >>),
             [Sp("root", P1("G")) EXCEPT !.vsets = << "n", "v", "w", "s" >>],
             Sp("root", << N("G"), V("n", "n1") >>),
             [Sp("root", << N("G"), V("v", "y") >>) EXCEPT
                 !.vsel = { << "s", "s1" >> }],
             Sp("root", << N("G"), V("w", "a") >>),
             Sp("root", << N("G"), V("s", "s1") >>),
             [Sp("root", P1("E")) EXCEPT !.vsets = << "v" >>,
                                         !.vsel = { << "v", "x" >> }],
             [Sp("root", << N("E"), V("v", "x") >>) EXCEPT
                 !.refs = << Arc("", P1("F")) >>],
             [Sp("root", << N("E"), V("v", "x"), N("C") >>) EXCEPT
                 !.inherits = << P2("E", "D") >>],
             Sp("root", << N("E"), V("v", "x"), N("D") >>),
             Sp("root", P1("F")) },
           [NoCaseExtras EXCEPT
               !.fallbacks = << << "v", << "z", "y" >> >> >>])

\* /A references @a@</R> and selects the variant {v=x}; /A/B is relocated to
\* /A/C.
CaseRelocate ==
    MkCase({ [Sp("root", P1("A")) EXCEPT !.refs = << Arc("a", P1("R")) >>,
                                         !.vsets = << "v" >>,
                                         !.vsel = { << "v", "x" >> }],
             Sp("root", << N("A"), V("v", "x") >>),
             Sp("root", << N("A"), V("v", "x"), N("C") >>),
             Sp("root", P2("A", "C")),
             Sp("a", P1("R")), Sp("a", P2("R", "B")),
             Sp("a", P3("R", "B", "Z")) },
           [NoCaseExtras EXCEPT
               !.relocs = { << "root", P2("A", "B"), P2("A", "C") >> }])

\* /G/K0 is relocated to /G/K; /G/R inherits the class /G/K and /G/M
\* references /G/R within the root layer stack.
CaseRelocateInherit ==
    MkCase({ Sp("root", P1("G")),
             [Sp("root", P2("G", "M")) EXCEPT
                 !.refs = << Arc("", P2("G", "R")) >>],
             [Sp("root", P2("G", "R")) EXCEPT !.inherits = << P2("G", "K") >>],
             Sp("root", P2("G", "K0")) },
           [NoCaseExtras EXCEPT
               !.relocs = { << "root", P2("G", "K0"), P2("G", "K") >> }])

\* /P and /Q carry a payload @b@</B>; only /P is in the include set.  /R is
\* private and referenced by /O.  /S references @a@</W/X>, the child of a
\* prim that carries the payload.  /T carries the payload and references
\* @a@</U>, which carries it too.  /K carries the payload, is included, and
\* has the variant set v with the selection x.
CasePayload ==
    MkCase({ [Sp("root", P1("P")) EXCEPT !.payloads = << Arc("b", P1("B")) >>],
             [Sp("root", P1("Q")) EXCEPT !.payloads = << Arc("b", P1("B")) >>],
             Sp("b", P1("B")), Sp("b", P2("B", "X")),
             [Sp("root", P1("S")) EXCEPT !.refs = << Arc("a", P2("W", "X")) >>],
             [Sp("a", P1("W")) EXCEPT !.payloads = << Arc("b", P1("B")) >>],
             Sp("a", P2("W", "X")),
             [Sp("root", P1("O")) EXCEPT !.refs = << Arc("a", P1("R")) >>],
             [Sp("a", P1("R")) EXCEPT !.perm = "Private"],
             [Sp("root", P1("T")) EXCEPT
                 !.payloads = << Arc("b", P1("B")) >>,
                 !.refs = << Arc("a", P1("U")) >>],
             [Sp("a", P1("U")) EXCEPT !.payloads = << Arc("b", P1("B")) >>],
             [Sp("root", P1("K")) EXCEPT
                 !.payloads = << Arc("b", P1("B")) >>,
                 !.vsets = << "v" >>, !.vsel = { << "v", "x" >> }],
             Sp("root", << N("K"), V("v", "x") >>) },
           [NoCaseExtras EXCEPT !.includedPayloads = { P1("P"), P1("K") }])

\* Nodes hold two arcs of a kind.  /M references @a@</M1/X> and @a@</M2/X>,
\* whose parents each list three references; /M3 lists three references,
\* the last to a prim whose parent references itself.  /K has three variant
\* sets and selects in the third.
CaseCapacity ==
    MkCase({ [Sp("root", P1("M")) EXCEPT
                 !.refs = << Arc("a", P2("M1", "X")),
                             Arc("a", P2("M2", "X")) >>],
             [Sp("root", P1("M3")) EXCEPT
                 !.refs = << Arc("b", P1("U")), Arc("b", P1("V")),
                             Arc("a", P2("M4", "X")) >>],
             [Sp("a", P1("M1")) EXCEPT
                 !.refs = << Arc("b", P1("U")), Arc("b", P1("V")),
                             Arc("b", P1("W")) >>],
             Sp("a", P2("M1", "X")),
             [Sp("a", P1("M2")) EXCEPT
                 !.refs = << Arc("b", P1("U")), Arc("b", P1("V")),
                             Arc("b", P1("W")) >>],
             Sp("a", P2("M2", "X")),
             [Sp("a", P1("M4")) EXCEPT !.refs = << Arc("", P1("M4")) >>],
             Sp("a", P2("M4", "X")),
             Sp("b", P1("U")), Sp("b", P1("V")), Sp("b", P1("W")),
             [Sp("root", P1("K")) EXCEPT !.vsets = << "n", "f", "v" >>,
                                         !.vsel = { << "v", "x" >> }],
             Sp("root", << N("K"), V("v", "x") >>) },
           [NoCaseExtras EXCEPT !.arcCapacity = 2])

\* /F references @a@</R>.  The root layer stack relocates /F/Z0 to /F/Z
\* and layer stack a relocates /R/Q to /R/Z: the referenced node at /R/Z,
\* elided for the first relocation, is itself a relocation target.
CaseRelocateBeneathElided ==
    MkCase({ [Sp("root", P1("F")) EXCEPT !.refs = << Arc("a", P1("R")) >>],
             Sp("root", P2("F", "Z")),
             Sp("a", P1("R")), Sp("a", P2("R", "Z")), Sp("a", P2("R", "Z0")),
             Sp("a", P2("R", "Q")) },
           [NoCaseExtras EXCEPT
               !.relocs = { << "root", P2("F", "Z0"), P2("F", "Z") >>,
                            << "a", P2("R", "Q"), P2("R", "Z") >> }])

\* /Y references @a@</R>, whose children are Z and Z0, and /Y/Z0 is relocated
\* to /Y/Z; the layer stack a renames /R/Z/K to /R/Z/K2.  /W references
\* @a@</R/Z>.
CaseRelocateOverReference ==
    MkCase({ [Sp("root", P1("Y")) EXCEPT !.refs = << Arc("a", P1("R")) >>],
             Sp("root", P2("Y", "Z")),
             Sp("a", P1("R")), Sp("a", P2("R", "Z")), Sp("a", P2("R", "Z0")),
             Sp("a", P3("R", "Z0", "K")),
             [Sp("root", P1("W")) EXCEPT
                 !.refs = << Arc("a", P2("R", "Z")) >>] },
           [NoCaseExtras EXCEPT
               !.relocs = { << "root", P2("Y", "Z0"), P2("Y", "Z") >>,
                            << "a", P3("R", "Z", "K"), P3("R", "Z", "K2") >> }])

\* /Y references @a@</R>, whose child Z0 inherits its sibling class /R/C,
\* and /Y/Z0 is relocated to /Y/Z: the class is implied beneath the
\* relocation source.  The child Z of /R, elided for the relocation, authors
\* an arc of every kind.
CaseRelocateImplied ==
    MkCase({ [Sp("root", P1("Y")) EXCEPT !.refs = << Arc("a", P1("R")) >>],
             Sp("root", P2("Y", "Z")),
             Sp("a", P1("R")),
             [Sp("a", P2("R", "Z0")) EXCEPT !.inherits = << P2("R", "C") >>],
             Sp("a", P2("R", "C")),
             [Sp("a", P2("R", "Z")) EXCEPT
                 !.refs = << Arc("b", P1("U")) >>,
                 !.payloads = << Arc("b", P1("B")) >>,
                 !.inherits = << P2("R", "C") >>,
                 !.specializes = << P2("R", "C") >>,
                 !.vsets = << "v" >>, !.vsel = { << "v", "x" >> }],
             Sp("a", << N("R"), N("Z"), V("v", "x") >>),
             Sp("b", P1("U")), Sp("b", P1("B")) },
           [NoCaseExtras EXCEPT
               !.relocs = { << "root", P2("Y", "Z0"), P2("Y", "Z") >> }])

\* References and payloads that name no prim.  The layer stack b declares
\* the default prim D; root and a declare none.  /P and /L target a, /Q
\* targets b, /I is an internal reference, and /Y references @a@</A>, which
\* targets the root layer stack.
CaseDefaultPrim ==
    MkCase({ [Sp("root", P1("P")) EXCEPT !.refs = << Arc("a", EmptyPath) >>],
             [Sp("root", P1("Q")) EXCEPT !.refs = << Arc("b", EmptyPath) >>],
             [Sp("root", P1("I")) EXCEPT !.refs = << Arc("", EmptyPath) >>],
             [Sp("root", P1("L")) EXCEPT
                 !.payloads = << Arc("a", EmptyPath) >>],
             [Sp("root", P1("Y")) EXCEPT !.refs = << Arc("a", P1("A")) >>],
             [Sp("a", P1("A")) EXCEPT !.refs = << Arc("root", EmptyPath) >>],
             Sp("b", P1("D")) },
           [NoCaseExtras EXCEPT !.defaultPrim = { << "b", "D" >> },
                                !.includedPayloads = { P1("L") }])

\* /D references </A> and /A/C references </D/B>: the index of /D/C builds
\* the index of /D/B for a node at /A/C, and within it the index of /D,
\* whose reference to /A meets /A/C in the enclosing graph.
CaseSubrootCycle ==
    MkCase({ Sp("root", P1("A")), Sp("root", P2("A", "B")),
             [Sp("root", P2("A", "C")) EXCEPT
                 !.refs = << Arc("", P2("D", "B")) >>],
             [Sp("root", P1("D")) EXCEPT !.refs = << Arc("", P1("A")) >>],
             Sp("root", P2("D", "C")) },
           NoCaseExtras)

\* /P references @a@</R>, which specializes </B>; the selected variant {v=x}
\* of </B> specializes </C> and references </D>.
CaseSpecializeVariant ==
    MkCase({ [Sp("root", P1("P")) EXCEPT !.refs = << Arc("a", P1("R")) >>],
             [Sp("a", P1("R")) EXCEPT !.specializes = << P1("B") >>],
             [Sp("a", P1("B")) EXCEPT !.vsets = << "v" >>,
                                      !.vsel = { << "v", "x" >> }],
             [Sp("a", << N("B"), V("v", "x") >>) EXCEPT
                 !.specializes = << P1("C") >>,
                 !.refs = << Arc("", P1("D")) >>],
             Sp("a", P1("C")), Sp("a", P1("D")),
             [Sp("root", P1("Q")) EXCEPT !.refs = << Arc("", P1("R")) >>],
             [Sp("root", P1("R")) EXCEPT !.specializes = << P1("B") >>],
             [Sp("root", P1("B")) EXCEPT !.specializes = << P1("C") >>],
             Sp("root", P1("C")) },
           NoCaseExtras)

\* /P has a payload and the inputs carry no include set.
CasePayloadNoIncludeSet ==
    MkCase({ [Sp("root", P1("P")) EXCEPT !.payloads = << Arc("b", P1("B")) >>],
             Sp("b", P1("B")) },
           [NoCaseExtras EXCEPT !.payloadMode = "null"])

\* /P has a payload and the predicate of the inputs refuses every path.
CasePayloadPredicate ==
    MkCase({ [Sp("root", P1("P")) EXCEPT !.payloads = << Arc("b", P1("B")) >>],
             Sp("b", P1("B")) },
           [NoCaseExtras EXCEPT !.payloadMode = "predFalse"])

\* The old "standin" behaviour, with fallbacks for the sets standin and v.
\* /A selects standin=preview in the root layer and /B in a session layer;
\* /C references and /D includes by payload a prim that selects it; /G has
\* the set and references a prim that has the set and selects in it; /E
\* selects in the set v.
CaseStandin ==
    MkCase({ [Sp("root", P1("A")) EXCEPT !.vsets = << "standin" >>,
                 !.vsel = { << "standin", "preview" >> }],
             Sp("root", << N("A"), V("standin", "preview") >>),
             Sp("root", << N("A"), V("standin", "render") >>),
             [Sp("root", P1("B")) EXCEPT !.vsets = << "standin" >>,
                 !.vsel = { << "standin", "preview" >> }],
             Sp("root", << N("B"), V("standin", "preview") >>),
             Sp("root", << N("B"), V("standin", "render") >>),
             [Sp("root", P1("C")) EXCEPT !.refs = << Arc("a", P1("R")) >>],
             [Sp("a", P1("R")) EXCEPT !.vsets = << "standin" >>,
                 !.vsel = { << "standin", "preview" >> }],
             Sp("a", << N("R"), V("standin", "preview") >>),
             Sp("a", << N("R"), V("standin", "render") >>),
             [Sp("root", P1("D")) EXCEPT !.payloads = << Arc("b", P1("X")) >>],
             [Sp("b", P1("X")) EXCEPT !.vsets = << "standin" >>,
                 !.vsel = { << "standin", "preview" >> }],
             Sp("b", << N("X"), V("standin", "preview") >>),
             Sp("b", << N("X"), V("standin", "render") >>),
             [Sp("root", P1("G")) EXCEPT !.vsets = << "standin" >>,
                 !.refs = << Arc("a", P1("R")) >>],
             Sp("root", << N("G"), V("standin", "preview") >>),
             Sp("root", << N("G"), V("standin", "render") >>),
             [Sp("root", P1("E")) EXCEPT !.vsets = << "v" >>,
                 !.vsel = { << "v", "x" >> }],
             Sp("root", << N("E"), V("v", "x") >>),
             Sp("root", << N("E"), V("v", "y") >>) },
           [NoCaseExtras EXCEPT
               !.fallbacks = << << "standin", << "render" >> >>,
                                << "v", << "y" >> >> >>,
               !.includedPayloads = { P1("D") },
               !.newDefaultStandin = FALSE,
               !.sessionSelections =
                   { << "root", P1("B"), "standin", "preview" >> }])

\* /P references </X/Y>.  /X has the variant sets v, for which the caller has
\* the fallback y, and w, and references /R, which has the set v too; the
\* variant {v=y} of /X references /Z, which selects v=z.
CaseVariantAncestral ==
    MkCase({ [Sp("root", P1("P")) EXCEPT
                 !.refs = << Arc("", P2("X", "Y")) >>],
             [Sp("root", P1("X")) EXCEPT !.vsets = << "v", "w" >>,
                                         !.refs = << Arc("", P1("R")) >>],
             Sp("root", P2("X", "Y")),
             [Sp("root", << N("X"), V("v", "y") >>) EXCEPT
                 !.refs = << Arc("", P1("Z")) >>],
             [Sp("root", P1("Z")) EXCEPT !.vsel = { << "v", "z" >> }],
             [Sp("root", P1("R")) EXCEPT !.vsets = << "v" >>],
             Sp("root", << N("R"), V("v", "y") >>),
             Sp("root", << N("R"), V("v", "z") >>) },
           [NoCaseExtras EXCEPT !.fallbacks = << << "v", << "y" >> >> >>])

\* /P inherits /K and references @a@</A>, which references @b@</C>; /P/B is
\* authored over @a@</A/B>, which is private, and @b@</C/B>.  /Q references
\* @a@</A/B>.
CasePermission ==
    MkCase({ [Sp("root", P1("P")) EXCEPT !.refs = << Arc("a", P1("A")) >>,
                                         !.inherits = << P1("K") >>],
             Sp("root", P2("P", "B")),
             Sp("root", P1("K")),
             [Sp("a", P1("A")) EXCEPT !.refs = << Arc("b", P1("C")) >>],
             [Sp("a", P2("A", "B")) EXCEPT !.perm = "Private"],
             Sp("b", P1("C")),
             Sp("b", P2("C", "B")),
             [Sp("root", P1("Q")) EXCEPT
                 !.refs = << Arc("a", P2("A", "B")) >>] },
           NoCaseExtras)

Cases ==
    << CaseReference, CaseCycle, CaseInherit, CaseSpecialize, CaseVariant,
       CaseRelocate, CasePayload, CaseRelocateInherit,
       CaseRelocateOverReference, CaseCapacity, CaseRelocateBeneathElided,
       CaseDefaultPrim, CaseSubrootCycle, CaseSpecializeVariant,
       CasePayloadNoIncludeSet, CasePayloadPredicate, CaseStandin,
       CaseVariantAncestral, CasePermission, CaseRelocateImplied >>

\* The scene the inputs belong to, and the one a layer stack belongs to.
Scene(inp) == Call("Scene", << inp.case >>)

SceneOf(ls) == Call("Scene", << ls.case >>)

(***************************************************************************)
(* Site composers over the scene.                                          *)
(***************************************************************************)
SpecsAt(ls, path) ==
    {s \in SceneOf(ls).specs : s.ls = ls.name /\ s.path = path}

\* The pseudo-root spec always exists.
PcpComposeSiteHasPrimSpecs(ls, path) ==
    path = AbsoluteRootPath \/ SpecsAt(ls, path) # {}

SpecAt(ls, path) ==
    IF SpecsAt(ls, path) = {} THEN Sp(ls.name, path)
    ELSE CHOOSE s \in SpecsAt(ls, path) : TRUE

PcpComposeSiteReferences(ls, path) == SpecAt(ls, path).refs

PcpComposeSitePayloads(ls, path) == SpecAt(ls, path).payloads

PcpComposeSiteInherits(ls, path) == SpecAt(ls, path).inherits

PcpComposeSiteSpecializes(ls, path) == SpecAt(ls, path).specializes

PcpComposeSiteVariantSets(ls, path) == SpecAt(ls, path).vsets

PcpComposeSiteVariantSetOptions(ls, path, vset) ==
    {s.path[Len(s.path)][3] :
        s \in {t \in SceneOf(ls).specs :
                 /\ t.ls = ls.name
                 /\ Len(t.path) = Len(path) + 1
                 /\ HasPrefix(t.path, path)
                 /\ t.path[Len(t.path)][1] = "v"
                 /\ t.path[Len(t.path)][2] = vset}}

\* The authored selection for vset at the site, "" when there is none.
PcpComposeSiteVariantSelection(ls, path, vset) ==
    With({pr \in SpecAt(ls, path).vsel : pr[1] = vset}, LAMBDA sels :
        IF sels = {} THEN "" ELSE (CHOOSE pr \in sels : TRUE)[2])

PcpComposeSitePermission(ls, path) == SpecAt(ls, path).perm

PcpComposeSiteHasSymmetry(ls, path) == SpecAt(ls, path).symmetry

PcpComposeSiteChildNames(ls, path) ==
    {s.path[Len(s.path)][2] :
        s \in {t \in SceneOf(ls).specs :
                 /\ t.ls = ls.name
                 /\ Len(t.path) = Len(path) + 1
                 /\ HasPrefix(t.path, path)
                 /\ t.path[Len(t.path)][1] = "n"}}

GetDefaultPrimPath(ls) ==
    With({pr \in SceneOf(ls).defaultPrim : pr[1] = ls.name}, LAMBDA d :
        IF d = {} THEN EmptyPath ELSE P1((CHOOSE pr \in d : TRUE)[2]))

\* Relocation tables of a layer stack, as sets of <<source, target>>.
IncrementalRelocatesSourceToTarget(ls) ==
    {<<r[2], r[3]>> :
        r \in {q \in SceneOf(ls).relocs : q[1] = ls.name}}

RECURSIVE FinalRelocationTarget(_, _, _)
FinalRelocationTarget(ls, p, fuel) ==
    With({r \in IncrementalRelocatesSourceToTarget(ls) : r[1] = p},
         LAMBDA next :
        IF next = {} \/ fuel = 0 THEN p
        ELSE FinalRelocationTarget(ls, (CHOOSE r \in next : TRUE)[2], fuel - 1))

RelocatesSourceToTarget(ls) ==
    {<<r[1],
       FinalRelocationTarget(ls, r[2], Cardinality(SceneOf(ls).relocs))>> :
        r \in IncrementalRelocatesSourceToTarget(ls)}

\* The relocations of the layer stack at or beneath the path, as a map
\* function with the root identity.
GetExpressionForRelocatesAtPath(ls, path) ==
    With({r \in RelocatesSourceToTarget(ls) : HasPrefix(r[2], path)},
         LAMBDA combined :
    With({r \in IncrementalRelocatesSourceToTarget(ls) :
             /\ HasPrefix(r[2], path)
             /\ \A c \in combined : c[2] # r[2]}, LAMBDA incr :
        MapCreate(combined \cup incr \cup {RootIdentityPair})))

(***************************************************************************)
(* Tasks and the task queue of Pcp_PrimIndexer.                            *)
(***************************************************************************)
TaskTypes ==
    << "EvalNodeRelocations", "EvalImpliedRelocations", "EvalNodeReferences",
       "EvalNodePayload", "EvalNodeInherits", "EvalImpliedClasses",
       "EvalNodeSpecializes", "EvalImpliedSpecializes", "EvalNodeVariantSets",
       "EvalNodeVariantAuthored", "EvalNodeVariantFallback",
       "EvalNodeVariantNoneFound", "None" >>

\* The enumerator's value: its position in Task::Type.
TaskTypeNum(type) == SeqIndexOf(TaskTypes, type) - 1

Task(type, node) ==
    [type |-> type, node |-> node, vsetName |-> "", vsetNum |-> 0]

VariantTask(type, node, vsetName, vsetNum) ==
    [type |-> type, node |-> node, vsetName |-> vsetName, vsetNum |-> vsetNum]

NoneTask == Task("None", NoNode)

\* An order that looks at the type of the tasks only.
PriorityOrderByType(g, a, b) == TaskTypeNum(a.type) > TaskTypeNum(b.type)

\* An order that, within a type, puts the node of the highest pool index and
\* the set of the highest number first.
PriorityOrderByIndex(g, a, b) ==
    IF a.type # b.type THEN TaskTypeNum(a.type) > TaskTypeNum(b.type)
    ELSE IF a.type = "EvalImpliedClasses" THEN b.node > a.node
    ELSE a.node < b.node \/ (a.node = b.node /\ a.vsetNum < b.vsetNum)

\* An order that treats the EvalImpliedClasses tasks as it does the tasks
\* whose order is arbitrary.
PriorityOrderAncestorsFirst(g, a, b) ==
    IF a.type # b.type THEN TaskTypeNum(a.type) > TaskTypeNum(b.type)
    ELSE CASE a.type = "EvalNodePayload" ->
                PcpCompareNodeStrength(g, a.node, b.node) = 1
           [] a.type \in {"EvalNodeVariantAuthored",
                          "EvalNodeVariantFallback"} ->
                IF a.node # b.node
                THEN PcpCompareNodeStrength(g, a.node, b.node) = 1
                ELSE a.vsetNum > b.vsetNum
           [] a.type = "EvalNodeVariantNoneFound" ->
                IF a.node # b.node THEN a.node > b.node
                ELSE a.vsetNum > b.vsetNum
           [] OTHER -> a.node > b.node

\* TRUE when a has lower priority than b.
PriorityOrder(g, a, b) ==
    IF a.type # b.type THEN TaskTypeNum(a.type) > TaskTypeNum(b.type)
    ELSE CASE a.type = "EvalNodePayload" ->
                PcpCompareNodeStrength(g, a.node, b.node) = 1
           [] a.type \in {"EvalNodeVariantAuthored",
                          "EvalNodeVariantFallback"} ->
                IF a.node # b.node
                THEN PcpCompareNodeStrength(g, a.node, b.node) = 1
                ELSE a.vsetNum > b.vsetNum
           [] a.type = "EvalNodeVariantNoneFound" ->
                IF a.node # b.node THEN a.node > b.node
                ELSE a.vsetNum > b.vsetNum
           [] a.type = "EvalImpliedClasses" -> b.node > a.node
           [] OTHER -> a.node > b.node

\* std::push_heap on the prefix q[1..n]: sift the element at n up.
RECURSIVE SiftUp(_, _, _, _)
SiftUp(g, q, hole, value) ==
    LET parent == (hole - 1) \div 2
    IN  IF hole > 0 /\ PriorityOrder(g, q[parent + 1], value)
        THEN SiftUp(g, [q EXCEPT ![hole + 1] = q[parent + 1]], parent, value)
        ELSE [q EXCEPT ![hole + 1] = value]

PushHeap(g, q, n) == IF n = 0 THEN q ELSE SiftUp(g, q, n - 1, q[n])

\* std::pop_heap: move the front to the back and restore the heap on the
\* rest, the hole descending along the larger children.
RECURSIVE AdjustHeap(_, _, _, _, _)
AdjustHeap(g, q, hole, len, value) ==
    IF hole < (len - 1) \div 2
    THEN LET right == 2 * (hole + 1)
             child == IF PriorityOrder(g, q[right + 1], q[right])
                      THEN right - 1 ELSE right
         IN  AdjustHeap(g, [q EXCEPT ![hole + 1] = q[child + 1]],
                        child, len, value)
    ELSE IF len % 2 = 0 /\ hole = (len - 2) \div 2
    THEN LET child == 2 * (hole + 1) - 1
         IN  SiftUp(g, [q EXCEPT ![hole + 1] = q[child + 1]], child, value)
    ELSE SiftUp(g, q, hole, value)

\* A pop that takes the task at the back of the vector as it stands.
PopHeapBack(g, q) == q

PopHeap(g, q) ==
    LET n == Len(q)
    IN  IF n <= 1 THEN q
        ELSE [AdjustHeap(g, q, 0, n - 1, q[n]) EXCEPT ![n] = q[1]]

_IsImpliedTaskType(type) ==
    type = "EvalImpliedClasses" \/ type = "EvalImpliedSpecializes"

\* An AddTask that pushes the task whether or not it is pending.
AddTaskAlways(ix, task) ==
    [ix EXCEPT !.uniq = IF _IsImpliedTaskType(task.type)
                        THEN @ \cup {task} ELSE @,
               !.tasks = PushHeap(ix.g, Append(@, task), Len(@) + 1)]

AddTask(ix, task) ==
    IF ~_IsImpliedTaskType(task.type) \/ task \notin ix.uniq
    THEN [ix EXCEPT
            !.uniq = IF _IsImpliedTaskType(task.type)
                     THEN @ \cup {task} ELSE @,
            !.tasks = PushHeap(ix.g, Append(@, task), Len(@) + 1)]
    ELSE ix

\* The task PopTask returns, and the indexer it leaves.
PopTaskResult(ix) ==
    IF ix.tasks = << >> THEN NoneTask
    ELSE PopHeap(ix.g, ix.tasks)[Len(ix.tasks)]

\* A pop that hands out the top task and leaves it in the queue.
PopTaskKeepsTask(ix) == ix

PopTask(ix) ==
    IF ix.tasks = << >> THEN ix
    ELSE LET q == PopHeap(ix.g, ix.tasks)
             task == q[Len(q)]
         IN  [ix EXCEPT !.tasks = SubSeq(q, 1, Len(q) - 1),
                        !.uniq = IF _IsImpliedTaskType(task.type)
                                 THEN @ \ {task} ELSE @]

\* A scan that changes the types in place and sifts nothing up.
RECURSIVE RetypeVariantTasksFrom(_, _, _)
RetypeVariantTasksFrom(g, q, i) ==
    IF i > Len(q) THEN q
    ELSE IF q[i].type \in {"EvalNodeVariantFallback",
                           "EvalNodeVariantNoneFound"}
    THEN RetypeVariantTasksFrom(
             g, [q EXCEPT ![i].type = "EvalNodeVariantAuthored"], i + 1)
    ELSE RetypeVariantTasksFrom(g, q, i + 1)

RECURSIVE RetryVariantTasksFrom(_, _, _)
RetryVariantTasksFrom(g, q, i) ==
    IF i > Len(q) THEN q
    ELSE IF q[i].type \in {"EvalNodeVariantFallback",
                           "EvalNodeVariantNoneFound"}
    THEN RetryVariantTasksFrom(
             g,
             PushHeap(g, [q EXCEPT ![i].type = "EvalNodeVariantAuthored"], i),
             i + 1)
    ELSE RetryVariantTasksFrom(g, q, i + 1)

\* A retry that leaves the queue as it is.
RetryNoTasks(ix) == ix

RetryVariantTasks(ix) ==
    [ix EXCEPT !.tasks = RetryVariantTasksFrom(ix.g, ix.tasks, 1)]

CapacityErrorTypes ==
    {"IndexCapacityExceeded", "ArcCapacityExceeded",
     "ArcNamespaceDepthCapacityExceeded"}

MkError(type, site) == [type |-> type, site |-> site]

HasErrorOfType(errs, type) == \E i \in 1..Len(errs) : errs[i].type = type

\* An error that is entered twice in both lists.
RecordErrorTwice(ix, err) ==
    [ix EXCEPT !.allErrors = @ \o << err, err >>,
               !.errors = @ \o << err, err >>]

RecordError(ix, err) ==
    IF err.type \in CapacityErrorTypes /\ HasErrorOfType(ix.allErrors, err.type)
    THEN ix
    ELSE [ix EXCEPT !.allErrors = Append(@, err),
                    !.errors = Append(@, err)]

PcpIsClassBasedArc(type) == type = "Inherit" \/ type = "Specialize"

PcpIsSpecializeArc(type) == type = "Specialize"

_HasSpecializesChild(g, parent) ==
    \E c \in ChildSet(g, parent) : PcpIsSpecializeArc(g[c].arcType)

\* The most ancestral Specialize node on the way from the node to the root.
RECURSIVE _FindStartingNodeForImpliedSpecializes(_, _, _)
_FindStartingNodeForImpliedSpecializes(g, n, found) ==
    IF n = RootIdx \/ n = NoNode THEN found
    ELSE _FindStartingNodeForImpliedSpecializes(
             g, g[n].parent,
             IF PcpIsSpecializeArc(g[n].arcType) THEN n ELSE found)

_HasClassBasedChild(g, parent) ==
    \E c \in ChildSet(g, parent) : PcpIsClassBasedArc(g[c].arcType)

\* <<instance node, class node>> of the class hierarchy n belongs to.
RECURSIVE Pcp_FindStartingNodeOfClassHierarchy(_, _, _, _)
Pcp_FindStartingNodeOfClassHierarchy(g, instanceNode, classNode, depth) ==
    IF /\ PcpIsClassBasedArc(g[instanceNode].arcType)
       /\ GetDepthBelowIntroduction(g, instanceNode) = depth
    THEN Pcp_FindStartingNodeOfClassHierarchy(
             g, g[instanceNode].parent, instanceNode, depth)
    ELSE << instanceNode, classNode >>

RECURSIVE _FindStartingNodeForImpliedClasses(_, _)
_FindStartingNodeForImpliedClasses(g, startNode) ==
    IF ~PcpIsClassBasedArc(g[startNode].arcType) THEN startNode
    ELSE LET ic == Pcp_FindStartingNodeOfClassHierarchy(
                       g, startNode, NoNode,
                       GetDepthBelowIntroduction(g, startNode))
             instanceNode == ic[1]
             classNode == ic[2]
         IN  IF /\ PcpIsClassBasedArc(g[instanceNode].arcType)
                /\ HasPrefix(g[classNode].path,
                             GetPathAtIntroduction(g, instanceNode))
             THEN instanceNode
             ELSE _FindStartingNodeForImpliedClasses(g, instanceNode)

_CreateMapExpressionForArc(sourcePath, g, targetNode, inp) ==
    With(StripAllVariantSelections(g[targetNode].path), LAMBDA targetPath :
    With(MapCreate({<<sourcePath, targetPath>>}), LAMBDA arcExpr :
        IF ~Scene(inp).usd
        THEN MapCompose(
                 GetExpressionForRelocatesAtPath(g[targetNode].ls, targetPath),
                 arcExpr)
        ELSE arcExpr))

\* The arc fields authored at the node's site.
_ScanArcs(g, n) ==
    With(SpecAt(g[n].ls, g[n].path), LAMBDA s :
        IF ~PcpComposeSiteHasPrimSpecs(g[n].ls, g[n].path) THEN {}
        ELSE (IF s.inherits # << >> THEN {"Inherits"} ELSE {})
             \cup (IF s.vsets # << >> THEN {"Variants"} ELSE {})
             \cup (IF s.refs # << >> THEN {"References"} ELSE {})
             \cup (IF s.payloads # << >> THEN {"Payloads"} ELSE {})
             \cup (IF s.specializes # << >> THEN {"Specializes"} ELSE {}))

AddTaskIf(ix, cond, task) == IF cond THEN AddTask(ix, task) ELSE ix

RECURSIVE _AddTasksForNodeRecursively(_, _, _, _, _)
RECURSIVE _AddTasksForNodes(_, _, _, _, _)
_AddTasksForNodeRecursively(ix, n, skipTasksForExpressedArcs, skipCompletedNodesForImpliedSpecializes, isUsd) ==
    With(_AddTasksForNodes(ix, Children(ix.g, n),
                           skipTasksForExpressedArcs,
                           skipCompletedNodesForImpliedSpecializes,
                           isUsd), LAMBDA ix1 :
    With(ix.g[n].hasSpecs /\ CanContributeSpecs(ix.g, n),
         LAMBDA contributesSpecs :
    With(IF contributesSpecs THEN _ScanArcs(ix.g, n) ELSE {}, LAMBDA arcMask :
    With(AddTaskIf(ix1, ix.evaluateVariants /\ "Variants" \in arcMask,
                   Task("EvalNodeVariantSets", n)), LAMBDA ix2 :
        IF skipCompletedNodesForImpliedSpecializes THEN ix2
        ELSE LET ix3 == AddTaskIf(ix2, "Specializes" \in arcMask,
                                  Task("EvalNodeSpecializes", n))
                 ix4 == AddTaskIf(ix3, "Inherits" \in arcMask,
                                  Task("EvalNodeInherits", n))
                 ix5 == AddTaskIf(ix4, "Payloads" \in arcMask,
                                  Task("EvalNodePayload", n))
                 ix6 == AddTaskIf(ix5, "References" \in arcMask,
                                  Task("EvalNodeReferences", n))
                 ix7 == AddTaskIf(ix6, ~isUsd, Task("EvalNodeRelocations", n))
                 ix8 == IF skipTasksForExpressedArcs THEN ix2 ELSE ix7
             IN  AddTaskIf(ix8, ~isUsd /\ ix.g[n].arcType = "Relocate",
                           Task("EvalImpliedRelocations", n))))))

_AddTasksForNodes(ix, ns, skipTasksForExpressedArcs, skipCompletedNodesForImpliedSpecializes, isUsd) ==
    IF ns = << >> THEN ix
    ELSE _AddTasksForNodes(
             _AddTasksForNodeRecursively(
                 ix, Head(ns), skipTasksForExpressedArcs,
                 skipCompletedNodesForImpliedSpecializes, isUsd),
             Tail(ns), skipTasksForExpressedArcs,
             skipCompletedNodesForImpliedSpecializes, isUsd)

AddTasksForRootNode(ix) ==
    _AddTasksForNodeRecursively(ix, RootIdx, FALSE, FALSE,
                                Scene(ix.inputs).usd)

AddTasksForNode(ix, n, skipTasksForExpressedArcs, skipCompletedNodesForImpliedSpecializes) ==
    LET g == ix.g
    IN
    With(IF PcpIsClassBasedArc(g[n].arcType)
         THEN AddTask(ix, Task("EvalImpliedClasses",
                               _FindStartingNodeForImpliedClasses(g, n)))
         ELSE AddTaskIf(ix, _HasClassBasedChild(g, n),
                        Task("EvalImpliedClasses", n)), LAMBDA ix1 :
    With(_FindStartingNodeForImpliedSpecializes(g, n, NoNode), LAMBDA base :
    With(IF ~ix.evaluateImpliedSpecializes THEN ix1
         ELSE IF base # NoNode
         THEN AddTask(ix1, Task("EvalImpliedSpecializes", base))
         ELSE AddTaskIf(ix1, _HasSpecializesChild(g, n),
                        Task("EvalImpliedSpecializes", n)), LAMBDA ix2 :
    LET ix3 == IF skipCompletedNodesForImpliedSpecializes THEN ix ELSE ix2
    IN
        _AddTasksForNodeRecursively(
            ix3, n, skipTasksForExpressedArcs,
            skipCompletedNodesForImpliedSpecializes, Scene(ix.inputs).usd))))

(***************************************************************************)
(* Stack frames.  A frame records the site a recursive build was asked     *)
(* for, the graph of the caller with the node the result will hang from,   *)
(* and the arc to that node.  A frame list starts with the nearest caller. *)
(***************************************************************************)
MkFrame(requestedSite, g, parentNode, arcToParent, skipDuplicateNodes) ==
    [requestedSite |-> requestedSite, g |-> g, parentNode |-> parentNode,
     arcToParent |-> arcToParent, skipDuplicateNodes |-> skipDuplicateNodes]

\* PcpPrimIndex_StackFrameIterator
MkIter(g, node, frames) == [g |-> g, node |-> node, frames |-> frames]

IterNextFrame(it) ==
    IF it.frames # << >>
    THEN MkIter(Head(it.frames).g, Head(it.frames).parentNode, Tail(it.frames))
    ELSE MkIter(it.g, NoNode, it.frames)

IterNext(it) ==
    IF it.g[it.node].arcType # "Root"
    THEN MkIter(it.g, it.g[it.node].parent, it.frames)
    ELSE IterNextFrame(it)

IterGetArcType(it) ==
    IF it.g[it.node].arcType # "Root" THEN it.g[it.node].arcType
    ELSE IF it.frames # << >> THEN Head(it.frames).arcToParent.type
    ELSE "Root"

RECURSIVE _PrimSpecExistsUnderNode(_, _)
_PrimSpecExistsUnderNode(g, n) ==
    \/ g[n].hasSpecs
    \/ \E c \in ChildSet(g, n) : _PrimSpecExistsUnderNode(g, c)

\* Marks the node inert and leaves the nodes beneath it as they are.
_InertNodeAlone(g, n) == [g EXCEPT ![n].inert = TRUE]

_InertSubtree(g, n) ==
    [k \in 1..Len(g) |->
        IF k \in SubtreeSet(g, n) THEN [g[k] EXCEPT !.inert = TRUE] ELSE g[k]]

_HasAncestorCycle(parentNodeSite, childNodeSite) ==
    /\ parentNodeSite.ls = childNodeSite.ls
    /\ \/ HasPrefix(parentNodeSite.path, childNodeSite.path)
       \/ HasPrefix(childNodeSite.path, parentNodeSite.path)

RECURSIVE _FindAncestorCycleInParentGraph(_, _, _)
_FindAncestorCycleInParentGraph(g, node, childNodeSite) ==
    IF node = NoNode THEN FALSE
    ELSE \/ _HasAncestorCycle(NodeSite(g, node), childNodeSite)
         \/ _FindAncestorCycleInParentGraph(g, g[node].parent, childNodeSite)

_IsImpliedClassBasedArc(arcType, parent, origin) ==
    PcpIsClassBasedArc(arcType) /\ parent # origin

\* The iterator after skipping across the parent class arcs.
RECURSIVE SkipParentClassArcs(_, _, _)
SkipParentClassArcs(j, parent, origin) ==
    IF j.node # NoNode
       /\ _IsImpliedClassBasedArc(IterGetArcType(j), parent, origin)
    THEN SkipParentClassArcs(IterNext(j), parent, origin)
    ELSE j

\* A cycle search that looks for the child site, with the path it has in the
\* graph being built, in every enclosing graph.
RECURSIVE FindCycleUntranslated(_, _)
FindCycleUntranslated(it, childSite) ==
    IF it.node = NoNode THEN FALSE
    ELSE \/ _FindAncestorCycleInParentGraph(it.g, it.node, childSite)
         \/ FindCycleUntranslated(IterNextFrame(it), childSite)

RECURSIVE FindCycleAcrossFrames(_, _)
FindCycleAcrossFrames(it, childSiteInStackFrame) ==
    IF it.node = NoNode THEN FALSE
    ELSE IF _FindAncestorCycleInParentGraph(it.g, it.node,
                                            childSiteInStackFrame)
    THEN TRUE
    ELSE IF it.frames # << >>
    THEN LET requestedPath == Head(it.frames).requestedSite.path
             currentPath == it.g[RootIdx].path
             path == IF currentPath = childSiteInStackFrame.path
                     THEN requestedPath
                     ELSE ReplacePrefix(requestedPath, currentPath,
                                        childSiteInStackFrame.path)
         IN  FindCycleAcrossFrames(
                 IterNextFrame(it),
                 MkSite(childSiteInStackFrame.ls, path))
    ELSE FindCycleAcrossFrames(IterNextFrame(it), childSiteInStackFrame)

\* TRUE when adding the arc would introduce a cycle.
_CheckForCycle(g, parent, origin, arcType, childSite, frames) ==
    With(SkipParentClassArcs(MkIter(g, parent, frames), parent, origin),
         LAMBDA j :
        IF /\ _IsImpliedClassBasedArc(arcType, parent, origin)
           /\ j.node # NoNode
           /\ IterGetArcType(j) = "Relocate"
        THEN FALSE
        ELSE IF arcType = "Variant" THEN FALSE
        ELSE FindCycleAcrossFrames(MkIter(g, parent, frames), childSite))

(***************************************************************************)
(* Culling and the conversion of a parent index for a child.               *)
(***************************************************************************)
\* The culled nodes of g that keep a child that is not culled.
CulledAboveUnculled(g) ==
    {n \in 1..Len(g) : g[n].culled /\ \E c \in ChildSet(g, n) : ~g[c].culled}

RECURSIVE GetOriginRootNode(_, _)
GetOriginRootNode(g, n) ==
    IF g[n].origin = g[n].parent \/ g[n].origin = NoNode THEN n
    ELSE GetOriginRootNode(g, g[n].origin)

_NodeCanBeCulled(g, node, rootSite) ==
    IF g[node].culled THEN TRUE
    ELSE IF g[node].parent = NoNode THEN FALSE
    ELSE IF GetDepthBelowIntroduction(g, node) = 0 THEN FALSE
    ELSE IF g[node].hasSymmetry THEN FALSE
    ELSE IF /\ g[node].arcType = "Inherit"
            /\ g[node].ls = rootSite.ls
            /\ ~IsRootPrimPath(
                   GetPathAtIntroduction(
                       g, IF g[node].origin = g[node].parent THEN node
                          ELSE GetOriginRootNode(g, node)))
    THEN FALSE
    ELSE IF \E c \in ChildSet(g, node) : ~g[c].culled THEN FALSE
    ELSE IF g[node].hasSpecs /\ CanContributeSpecs(g, node) THEN FALSE
    ELSE TRUE

RECURSIVE _CullSubtreesWithNoOpinions(_, _, _)
RECURSIVE CullSubtreesOfChildren(_, _, _)
_CullSubtreesWithNoOpinions(g, node, rootSite) ==
    With(CullSubtreesOfChildren(g, Children(g, node), rootSite), LAMBDA g1 :
        IF _NodeCanBeCulled(g1, node, rootSite)
        THEN [g1 EXCEPT ![node].culled = TRUE]
        ELSE g1)

CullSubtreesOfChildren(g, cs, rootSite) ==
    IF cs = << >> THEN g
    ELSE IF PcpIsSpecializeArc(g[Head(cs)].arcType)
    THEN CullSubtreesOfChildren(g, Tail(cs), rootSite)
    ELSE CullSubtreesOfChildren(
             _CullSubtreesWithNoOpinions(g, Head(cs), rootSite),
             Tail(cs), rootSite)

\* Every node is visited once; the order does not matter.
_ConvertNodeForChild(g, inp) ==
    [k \in 1..Len(g) |->
        LET n == g[k]
        IN
        With(n.hasSpecs /\ PcpComposeSiteHasPrimSpecs(n.ls, n.path),
             LAMBDA hasSpecs :
        With(~Scene(inp).usd /\ ~n.inert /\ hasSpecs, LAMBDA recompute :
            [n EXCEPT
               !.hasSpecs = hasSpecs,
               !.permission =
                   IF recompute /\ n.permission = "Public"
                   THEN PcpComposeSitePermission(n.ls, n.path) ELSE @,
               !.hasSymmetry =
                   IF recompute /\ ~n.hasSymmetry
                   THEN PcpComposeSiteHasSymmetry(n.ls, n.path) ELSE @,
               !.dueToAncestor = IF k = RootIdx THEN @ ELSE TRUE]))]

(***************************************************************************)
(* Bounds of the exploration.                                              *)
(***************************************************************************)
\* Deepest nesting of recursive builds started by _AddArc.
MaxFrameDepth == 4

\* Most tasks one recursive build may dispatch.
MaxSubTasks == 40

\* Most tasks the top-level build may dispatch.
MaxSteps == 40

(***************************************************************************)
(* The indexer (Pcp_PrimIndexer) with the outputs it writes to.            *)
(***************************************************************************)
NewOutputs ==
    [g |-> << >>, tasks |-> << >>, uniq |-> {}, allErrors |-> << >>,
     errors |-> << >>, hasPayloads |-> FALSE, payloadState |-> "NoPayload",
     calls |-> << >>, diverged |-> FALSE, elided |-> {},
     cullBroken |-> FALSE, ret |-> NoNode,
     rootSite |-> NoSite, ancestorRecursionDepth |-> 0, frames |-> << >>,
     evaluateImpliedSpecializes |-> FALSE, evaluateVariants |-> FALSE,
     inputs |-> [case |-> 0, path |-> EmptyPath, cull |-> FALSE]]

ArcArgs(arcType, parent, origin, site, mapExpr, arcSiblingNum, namespaceDepth, directNodeShouldContributeSpecs, includeAncestralOpinions, skipDuplicateNodes, skipImpliedSpecializesCompletedNodes, skipTasksForExpressedArcs) ==
    [arcType |-> arcType, parent |-> parent, origin |-> origin,
     site |-> site, mapExpr |-> mapExpr, arcSiblingNum |-> arcSiblingNum,
     namespaceDepth |-> namespaceDepth,
     direct |-> directNodeShouldContributeSpecs,
     ancestral |-> includeAncestralOpinions,
     skipDup |-> skipDuplicateNodes,
     skipImpliedSpecializes |-> skipImpliedSpecializesCompletedNodes,
     skipExpressed |-> skipTasksForExpressedArcs]

\* The short overload of _AddArc: the namespace depth is the parent's.
ArcArgsAtParent(g, arcType, parent, origin, site, mapExpr, arcSiblingNum, directNodeShouldContributeSpecs, includeAncestralOpinions, skipDuplicateNodes) ==
    ArcArgs(arcType, parent, origin, site, mapExpr, arcSiblingNum,
            NonVariantPathElementCount(g[parent].path),
            directNodeShouldContributeSpecs, includeAncestralOpinions,
            skipDuplicateNodes, FALSE, FALSE)

\* A search that looks at no graph.
FindNoDuplicate(it, siteToAdd) == FALSE

RECURSIVE FindDuplicateAcrossFrames(_, _)
FindDuplicateAcrossFrames(it, siteToAdd) ==
    IF it.node = NoNode THEN FALSE
    ELSE IF GetNodeUsingSite(it.g, siteToAdd) # NoNode THEN TRUE
    ELSE IF it.frames # << >>
    THEN FindDuplicateAcrossFrames(
             IterNextFrame(it),
             MkSite(siteToAdd.ls,
                    ReplacePrefix(Head(it.frames).requestedSite.path,
                                  it.g[RootIdx].path, siteToAdd.path)))
    ELSE FindDuplicateAcrossFrames(IterNextFrame(it), siteToAdd)

\* A test that finds no relocation source.
HasNoRelocationSource(site) == FALSE

\* The "salted earth" test: a relocation source at or beneath the site.
HasRelocationSourceAtOrBelow(site) ==
    \E r \in RelocatesSourceToTarget(site.ls) : HasPrefix(r[1], site.path)

\* An _AddArc that leaves the culled ancestors of the new node as they are.
UncullNoAncestor(g, p) == g

RECURSIVE UncullAncestors(_, _)
UncullAncestors(g, p) ==
    IF p = NoNode \/ ~g[p].culled THEN g
    ELSE UncullAncestors([g EXCEPT ![p].culled = FALSE], g[p].parent)

MergePayloadState(mine, child) ==
    IF child = "NoPayload" THEN mine
    ELSE IF mine = "NoPayload" THEN child
    ELSE mine

\* The error with which InsertChild and InsertChildSubgraph refuse a node:
\* the arc's sibling number does not fit the graph's node layout.
InsertChildError(inp, arcSiblingNum) ==
    IF arcSiblingNum >= Scene(inp).arcCapacity THEN "ArcCapacityExceeded"
    ELSE "None"

\* An Append that takes the graph of the child and none of its errors.
AppendGraphOnly(ix, child, arc) ==
    [ix EXCEPT !.diverged = @ \/ child.diverged,
               !.cullBroken = @ \/ child.cullBroken,
               !.g = InsertChildSubgraph(ix.g, child.g, arc),
               !.calls = @ \o child.calls]

\* PcpPrimIndexOutputs::Append
AppendOutputs(ix, child, arc) ==
    [ix EXCEPT !.diverged = @ \/ child.diverged,
               !.cullBroken = @ \/ child.cullBroken,
               !.g = InsertChildSubgraph(ix.g, child.g, arc),
               !.hasPayloads = @ \/ child.hasPayloads,
               !.allErrors = @ \o child.allErrors,
               !.payloadState = MergePayloadState(@, child.payloadState),
               !.calls = @ \o child.calls]

\* The sites of the nodes from n up to the root of its graph.
ChainSites(g, n) == {NodeSite(g, m) : m \in {n} \cup AncestorsOf(g, n)}

\* The arc types met from n up to the root of its graph.
RECURSIVE ArcTypesToRoot(_, _)
ArcTypesToRoot(g, n) ==
    IF g[n].parent = NoNode THEN << >>
    ELSE << g[n].arcType >> \o ArcTypesToRoot(g, g[n].parent)

\* What a walk from the parent of a new arc sees in the graph being built
\* and then in the graph of each enclosing stack frame: the sites on the
\* chain, the arc types on it (with the arc the frame hangs from), the path
\* of the graph's root, the path the graph was requested for and the sites
\* of all the graph's nodes.
RECURSIVE ChainLevels(_, _, _)
ChainLevels(g, node, frames) ==
    << [sites |-> ChainSites(g, node),
        arcTypes |-> ArcTypesToRoot(g, node)
                         \o (IF frames = << >> THEN << >>
                             ELSE << Head(frames).arcToParent.type >>),
        rootPath |-> g[RootIdx].path,
        requestedPath |-> IF frames = << >> THEN g[RootIdx].path
                          ELSE Head(frames).requestedSite.path,
        allSites |-> {NodeSite(g, m) : m \in 1..Len(g)}] >>
        \o (IF frames = << >> THEN << >>
            ELSE ChainLevels(Head(frames).g, Head(frames).parentNode,
                             Tail(frames)))

CallRecord(a, before, after, cycle) ==
    [arcType |-> a.arcType, site |-> a.site, parent |-> a.parent,
     origin |-> a.origin,
     levels |-> ChainLevels(before.g, a.parent, before.frames),
     cycle |-> cycle, ret |-> after.ret, frames |-> Len(before.frames),
     nested |-> Len(after.calls) - Len(before.calls),
     unculled |-> {p \in 1..Len(before.g) :
                      before.g[p].culled /\ ~after.g[p].culled},
     retCulled |-> after.ret # NoNode /\ after.g[after.ret].culled,
     culledAbove |-> IF after.ret = NoNode THEN {}
                     ELSE {p \in AncestorsOf(after.g, after.ret) :
                              after.g[p].culled},
     unchanged |-> /\ after.g = before.g
                   /\ after.tasks = before.tasks
                   /\ after.uniq = before.uniq,
     direct |-> a.direct, ancestral |-> a.ancestral, skipDup |-> a.skipDup,
     frameSkipDup |-> /\ before.frames # << >>
                      /\ Head(before.frames).skipDuplicateNodes,
     added |-> Len(after.g) - Len(before.g),
     retPermission |-> IF after.ret = NoNode THEN "Public"
                       ELSE after.g[after.ret].permission,
     retInert |-> after.ret # NoNode /\ after.g[after.ret].inert,
     liveBelowRet |-> IF after.ret = NoNode THEN 0
                      ELSE Cardinality({m \in SubtreeSet(after.g, after.ret) :
                                           ~after.g[m].inert}),
     newErrors |-> SubSeq(after.errors, Len(before.errors) + 1,
                          Len(after.errors))]

\* An _AddArc that adds a single node and, in the outermost build, leaves it
\* without a parent.
AddArcNodeDetached(ix, a, skipDuplicateNodes) ==
    [ix EXCEPT !.g = Append(@, MkNode(a.site,
                                      MkArc(a.arcType,
                                            IF /\ ix.frames = << >>
                                               /\ ix.rootSite.path =
                                                      ix.inputs.path
                                            THEN NoNode ELSE a.parent,
                                            a.origin, a.mapExpr,
                                            a.namespaceDepth,
                                            a.arcSiblingNum))),
               !.ret = Len(ix.g) + 1]

\* The steps of _AddArc after the cycle and duplicate checks.
AddArcNode(ix, a, skipDuplicateNodes) ==
    IF a.ancestral /\ Len(ix.frames) >= MaxFrameDepth
    THEN [ix EXCEPT !.diverged = TRUE, !.ret = NoNode]
    ELSE
    LET direct == a.direct
                  /\ ~(a.ancestral /\ HasRelocationSourceAtOrBelow(a.site))
        newArc == MkArc(a.arcType, a.parent, a.origin, a.mapExpr,
                        a.namespaceDepth, a.arcSiblingNum)
        newNode == Len(ix.g) + 1
        hasSpecs == PcpComposeSiteHasPrimSpecs(a.site.ls, a.site.path)
        leaf == [MkNode(a.site, newArc) EXCEPT
                    !.inert = ~direct,
                    !.hasSpecs = hasSpecs,
                    !.permission =
                        IF direct /\ hasSpecs /\ ~Scene(ix.inputs).usd
                        THEN PcpComposeSitePermission(a.site.ls, a.site.path)
                        ELSE @,
                    !.hasSymmetry =
                        IF direct /\ hasSpecs /\ ~Scene(ix.inputs).usd
                        THEN PcpComposeSiteHasSymmetry(a.site.ls, a.site.path)
                        ELSE @]
        frame == MkFrame(a.site, ix.g, a.parent, newArc, skipDuplicateNodes)
        newNodeError == InsertChildError(ix.inputs, a.arcSiblingNum)
        childOutputs ==
            Call("Pcp_BuildPrimIndex",
                 << a.site, ix.rootSite, ix.ancestorRecursionDepth,
                    FALSE, FALSE, direct, << frame >> \o ix.frames,
                    ix.inputs >>)
    IN
    IF newNodeError # "None"
    THEN [RecordError(
              IF ~a.ancestral THEN ix
              ELSE [ix EXCEPT !.diverged = @ \/ childOutputs.diverged,
                              !.cullBroken = @ \/ childOutputs.cullBroken,
                              !.calls = @ \o childOutputs.calls],
              MkError(newNodeError, ix.rootSite))
             EXCEPT !.ret = NoNode]
    ELSE
    With(IF ~a.ancestral THEN [ix EXCEPT !.g = Append(@, leaf)]
         ELSE AppendOutputs(ix, childOutputs, newArc), LAMBDA ix1 :
    With(AddTasksForNode(
             [ix1 EXCEPT
                 !.g = IF ~ix.inputs.cull THEN @
                       ELSE IF _NodeCanBeCulled(@, newNode, ix.rootSite)
                       THEN [@ EXCEPT ![newNode].culled = TRUE]
                       ELSE UncullAncestors(@, a.parent)],
             newNode, a.skipExpressed \/ a.ancestral,
             a.skipImpliedSpecializes), LAMBDA ix3 :
    With(IF ix3.g[newNode].permission = "Private"
         THEN [RecordError(ix3, MkError("ArcPermissionDenied", a.site))
                  EXCEPT !.g = _InertSubtree(ix3.g, newNode)]
         ELSE ix3, LAMBDA ix4 :
        [ix4 EXCEPT !.g = IF a.site.path = AbsoluteRootPath
                          THEN _InertSubtree(@, newNode) ELSE @,
                    !.ret = newNode])))

\* An _AddArc that reports a cycle and also makes the parent node inert.
AddArcBodyMarksParent(ix, a) ==
    [RecordError(ix, MkError("ArcCycle", a.site))
        EXCEPT !.g = [@ EXCEPT ![a.parent].inert = TRUE], !.ret = NoNode]

AddArcBody(ix, a) ==
    LET skipDuplicateNodes ==
            \/ a.skipDup
            \/ ix.frames # << >> /\ Head(ix.frames).skipDuplicateNodes
    IN  IF _CheckForCycle(ix.g, a.parent, a.origin, a.arcType, a.site,
                          ix.frames)
        THEN [RecordError(ix, MkError("ArcCycle", a.site))
                 EXCEPT !.ret = NoNode]
        ELSE IF /\ skipDuplicateNodes
                /\ FindDuplicateAcrossFrames(
                       MkIter(ix.g, a.parent, ix.frames), a.site)
        THEN [ix EXCEPT !.ret = NoNode]
        ELSE AddArcNode(ix, a, skipDuplicateNodes)

\* _AddArc, leaving the new node (or NoNode) in ret and a record of the
\* call in calls.
_AddArc(ix, a) ==
    With(AddArcBody(ix, a), LAMBDA after :
        [after EXCEPT
            !.calls = Append(@, CallRecord(
                                    a, ix, after,
                                    _CheckForCycle(ix.g, a.parent, a.origin,
                                                   a.arcType, a.site,
                                                   ix.frames)))])

(***************************************************************************)
(* Permissions and the end of PcpComputePrimIndex.                         *)
(***************************************************************************)
\* The nodes are visited from the weakest to the strongest.
RECURSIVE EnforcePermissionsFrom(_, _, _, _)
EnforcePermissionsFrom(ix, order, i, privateNode) ==
    IF i < 1 THEN ix
    ELSE LET cur == order[i]
         IN  IF ~CanContributeSpecs(ix.g, cur)
             THEN EnforcePermissionsFrom(ix, order, i - 1, privateNode)
             ELSE LET ix1 == IF privateNode = NoNode THEN ix
                             ELSE [ix EXCEPT !.g[cur].restricted = TRUE]
                      ix2 == IF /\ privateNode # NoNode
                                /\ ix.g[cur].hasSpecs
                                /\ PcpComposeSiteHasPrimSpecs(ix.g[cur].ls,
                                                              ix.g[cur].path)
                             THEN RecordError(
                                      ix1, MkError("PrimPermissionDenied",
                                                   NodeSite(ix.g, cur)))
                             ELSE ix1
                      priv == IF /\ privateNode = NoNode
                                 /\ ix.g[cur].permission # "Public"
                              THEN cur ELSE privateNode
                  IN  EnforcePermissionsFrom(ix2, order, i - 1, priv)

\* A pass that restricts no node.
_EnforceNoPermissions(ix) == ix

_EnforcePermissions(ix) ==
    EnforcePermissionsFrom(ix, StrengthOrder(ix.g), Len(ix.g), NoNode)

\* What PcpComputePrimIndex does once Pcp_BuildPrimIndex has returned.
FinishPrimIndex(ix) ==
    With(IF ~Scene(ix.inputs).usd THEN _EnforcePermissions(ix) ELSE ix,
         LAMBDA ix1 :
        [ix1 EXCEPT !.g = Finalize(ix1.g)])

(***************************************************************************)
(* Index construction.                                                     *)
(***************************************************************************)
\* The layer stack of the cache the indexes are computed for.
RootLayerStackName == "root"

CacheLayerStack(inp) == LayerStack(inp.case, RootLayerStackName)

NewIndexer(out, rootSite, ancestorRecursionDepth, frames, evaluateImpliedSpecializes, evaluateVariants, inp) ==
    [out EXCEPT !.tasks = << >>, !.uniq = {}, !.ret = NoNode,
                !.rootSite = rootSite,
                !.ancestorRecursionDepth = ancestorRecursionDepth,
                !.frames = frames,
                !.evaluateImpliedSpecializes = evaluateImpliedSpecializes,
                !.evaluateVariants = evaluateVariants,
                !.inputs = inp]

\* A one-node graph whose node is never inert.
OneNodeContributing(site, inert) ==
    [NewOutputs EXCEPT
        !.g = << [MkNode(site, RootArc) EXCEPT
                    !.hasSpecs = PcpComposeSiteHasPrimSpecs(site.ls, site.path)] >>]

OneNodeOutputs(site, inert) ==
    [NewOutputs EXCEPT
        !.g = << [MkNode(site, RootArc) EXCEPT
                    !.hasSpecs = PcpComposeSiteHasPrimSpecs(site.ls, site.path),
                    !.inert = inert] >>]

_BuildInitialPrimIndexFromAncestor(site, rootSite, ancestorRecursionDepth, frames, evaluateImpliedSpecializes, rootNodeShouldContributeSpecs, inp) ==
    LET parentPath == GetParentPath(site.path)
        parentIndex == Call("PcpComputePrimIndex", << parentPath, inp >>)
    IN
    With(IF /\ frames = << >>
            /\ evaluateImpliedSpecializes
            /\ site.ls = CacheLayerStack(inp)
         THEN [NewOutputs EXCEPT !.g = parentIndex.g,
                                 !.allErrors = parentIndex.allErrors,
                                 !.diverged = parentIndex.diverged,
                                 !.cullBroken = parentIndex.cullBroken]
         ELSE Call("Pcp_BuildPrimIndex",
                   << MkSite(site.ls, parentPath), MkSite(site.ls, parentPath),
                      ancestorRecursionDepth + 1, evaluateImpliedSpecializes,
                      TRUE, TRUE, frames, inp >>), LAMBDA parent :
    With(_ConvertNodeForChild(
             AppendChildNameToAllSites(parent.g, GetNameToken(site.path)),
             inp), LAMBDA g1 :
        [parent EXCEPT
            !.g = [(IF inp.cull
                    THEN _CullSubtreesWithNoOpinions(g1, RootIdx, rootSite)
                    ELSE g1)
                      EXCEPT ![RootIdx].inert =
                                 IF ~rootNodeShouldContributeSpecs
                                 THEN TRUE ELSE @],
            !.hasPayloads = FALSE,
            !.payloadState = "NoPayload"]))

\* Pcp_BuildPrimIndex up to the start of its task loop.
InitialIndexer(site, rootSite, ancestorRecursionDepth, evaluateImpliedSpecializes, evaluateVariants, rootNodeShouldContributeSpecs, frames, inp) ==
    IF GetPathElementCount(site.path) = 0
    THEN NewIndexer(OneNodeOutputs(site, FALSE), rootSite,
                    ancestorRecursionDepth, frames,
                    evaluateImpliedSpecializes, evaluateVariants, inp)
    ELSE With(IF IsPrimVariantSelectionPath(site.path)
              THEN OneNodeOutputs(site, ~rootNodeShouldContributeSpecs)
              ELSE _BuildInitialPrimIndexFromAncestor(
                       site, rootSite, ancestorRecursionDepth, frames,
                       evaluateImpliedSpecializes,
                       rootNodeShouldContributeSpecs, inp), LAMBDA out :
             AddTasksForRootNode(
                 NewIndexer(out, rootSite, ancestorRecursionDepth, frames,
                            evaluateImpliedSpecializes, evaluateVariants,
                            inp)))

\* The indexer as a task is popped, with a note of whether the graph then
\* has a culled node above one that is not culled.
NoteCulling(ix) ==
    [ix EXCEPT !.cullBroken =
                   @ \/ (ix.inputs.cull /\ CulledAboveUnculled(ix.g) # {})]

\* The task loop of Pcp_BuildPrimIndex, run to its end.
RECURSIVE Drain(_, _)
Drain(ix, fuel) ==
    CASE ix.tasks = << >> -> ix
      [] fuel = 0 -> [ix EXCEPT !.diverged = TRUE]
      [] OTHER -> Drain(Call("DispatchTask",
                             << PopTask(NoteCulling(ix)), PopTaskResult(ix) >>),
                        fuel - 1)

Pcp_BuildPrimIndex(site, rootSite, ancestorRecursionDepth, evaluateImpliedSpecializes, evaluateVariants, rootNodeShouldContributeSpecs, frames, inp) ==
    Drain(Call("InitialIndexer", << site, rootSite, ancestorRecursionDepth,
                                    evaluateImpliedSpecializes, evaluateVariants,
                                    rootNodeShouldContributeSpecs, frames, inp >>),
          MaxSubTasks)

PcpComputePrimIndex(primPath, inp) ==
    FinishPrimIndex(
        Call("Pcp_BuildPrimIndex", << MkSite(CacheLayerStack(inp), primPath),
                                      MkSite(CacheLayerStack(inp), primPath),
                                      0, TRUE, TRUE, TRUE, << >>, inp >>))

(***************************************************************************)
(* References and payloads.                                                *)
(***************************************************************************)
\* An absolute prim path without variant selections.
IsValidArcPrimPath(p) ==
    /\ ~IsEmptyPath(p)
    /\ Len(p) >= 1
    /\ \A i \in 1..Len(p) : p[i][1] = "n"

\* An evaluator that gives up at the first authored arc.
EvalNoArcs(ix, node, arcType, arcs, arcNum) ==
    IF arcs = << >> THEN ix
    ELSE RecordError(ix, MkError("InvalidPrimPath", NodeSite(ix.g, node)))

RECURSIVE EvalRefOrPayloadArcsFrom(_, _, _, _, _)
EvalRefOrPayloadArcsFrom(ix, node, arcType, arcs, arcNum) ==
    IF arcNum >= Len(arcs) THEN ix
    ELSE
    LET arc == arcs[arcNum + 1]
        next(ixn) == EvalRefOrPayloadArcsFrom(ixn, node, arcType, arcs,
                                              arcNum + 1)
        nodeSite == NodeSite(ix.g, node)
        isInternal == arc.asset = ""
        layerStack == IF isInternal THEN ix.g[node].ls
                      ELSE LayerStack(ix.g[node].ls.case, arc.asset)
        noDefault == /\ IsEmptyPath(arc.prim)
                     /\ IsEmptyPath(GetDefaultPrimPath(layerStack))
        ix1 == IF noDefault
               THEN RecordError(ix, MkError("UnresolvedPrimPath", nodeSite))
               ELSE ix
        primPath == IF ~IsEmptyPath(arc.prim) THEN arc.prim
                    ELSE IF noDefault THEN AbsoluteRootPath
                    ELSE GetDefaultPrimPath(layerStack)
        arcExpr == _CreateMapExpressionForArc(primPath, ix.g, node, ix.inputs)
        mapExpr == IF isInternal THEN AddRootIdentity(arcExpr) ELSE arcExpr
    IN
    IF ~IsEmptyPath(arc.prim) /\ ~IsValidArcPrimPath(arc.prim)
    THEN next(RecordError(ix, MkError("InvalidPrimPath", nodeSite)))
    ELSE IF ~isInternal /\ arc.asset \in Scene(ix.inputs).muted
    THEN next(RecordError(ix, MkError("MutedAssetPath", nodeSite)))
    ELSE IF ~isInternal /\ arc.asset \notin AllLayerStacks
    THEN next(RecordError(ix, MkError("InvalidAssetPath", nodeSite)))
    ELSE
    With(Call("_AddArc",
              << ix1,
                 ArcArgsAtParent(ix1.g, arcType, node, node,
                                 MkSite(layerStack, primPath), mapExpr,
                                 arcNum, ~noDefault,
                                 ~IsRootPrimPath(primPath), FALSE) >>),
         LAMBDA ix2 :
        next(IF ix2.ret # NoNode /\ ~_PrimSpecExistsUnderNode(ix2.g, ix2.ret)
             THEN RecordError(ix2, MkError("UnresolvedPrimPath", nodeSite))
             ELSE ix2))

_EvalRefOrPayloadArcs(ix, node, arcType, arcs) ==
    EvalRefOrPayloadArcsFrom(ix, node, arcType, arcs, 0)

_EvalNodeReferences(ix, node) ==
    IF ~CanContributeSpecs(ix.g, node) THEN ix
    ELSE _EvalRefOrPayloadArcs(
             ix, node, "Reference",
             PcpComposeSiteReferences(ix.g[node].ls, ix.g[node].path))

\* A payload evaluation that composes every authored payload.
_EvalNodePayloadsAlways(ix, node) ==
    _EvalRefOrPayloadArcs([ix EXCEPT !.hasPayloads = TRUE], node, "Payload",
                          PcpComposeSitePayloads(ix.g[node].ls,
                                                 ix.g[node].path))

\* A payload evaluation that records an exclusion when there is no include
\* set.
_EvalNodePayloadsNotingNull(ix, node) ==
    IF ~CanContributeSpecs(ix.g, node) THEN ix
    ELSE IF PcpComposeSitePayloads(ix.g[node].ls, ix.g[node].path) = << >>
    THEN ix
    ELSE [ix EXCEPT !.hasPayloads = TRUE,
                    !.payloadState = "ExcludedByIncludeSet"]

_EvalNodePayloads(ix, node) ==
    LET payloadArcs == PcpComposeSitePayloads(ix.g[node].ls, ix.g[node].path)
        isAncestralPayloadOfSubrootReference ==
            /\ ix.frames # << >>
            /\ Head(ix.frames).arcToParent.type \in {"Payload", "Reference"}
            /\ NodeSite(ix.g, RootIdx) # Head(ix.frames).requestedSite
        mode == Scene(ix.inputs).payloadMode
        composePayload ==
            IF mode = "set"
            THEN ix.rootSite.path \in Scene(ix.inputs).includedPayloads
            ELSE mode = "predTrue"
        state == CASE mode = "set" ->
                         IF composePayload THEN "IncludedByIncludeSet"
                         ELSE "ExcludedByIncludeSet"
                   [] OTHER ->
                         IF composePayload THEN "IncludedByPredicate"
                         ELSE "ExcludedByPredicate"
        ix1 == [ix EXCEPT !.hasPayloads = TRUE]
    IN  IF ~CanContributeSpecs(ix.g, node) THEN ix
        ELSE IF payloadArcs = << >> THEN ix
        ELSE IF isAncestralPayloadOfSubrootReference
        THEN _EvalRefOrPayloadArcs(ix1, node, "Payload", payloadArcs)
        ELSE IF mode = "null" THEN ix1
        ELSE IF ~composePayload THEN [ix1 EXCEPT !.payloadState = state]
        ELSE _EvalRefOrPayloadArcs([ix1 EXCEPT !.payloadState = state],
                                   node, "Payload", payloadArcs)

(***************************************************************************)
(* Relocations.                                                            *)
(***************************************************************************)
\* An elision that leaves the sub-tree as it is.
_ElideNothing(ix, g, node) == g

_ElideSubtree(ix, g, node) ==
    [k \in 1..Len(g) |->
        IF k \notin SubtreeSet(g, node) THEN g[k]
        ELSE IF ix.inputs.cull THEN [g[k] EXCEPT !.culled = TRUE]
        ELSE [g[k] EXCEPT !.inert = TRUE]]

RECURSIVE _ElideRelocatedSubtrees(_, _, _)
RECURSIVE ElideRelocatedAmong(_, _, _)
_ElideRelocatedSubtrees(ix, g, node) ==
    ElideRelocatedAmong(ix, g, Children(g, node))

ElideRelocatedAmong(ix, g, cs) ==
    IF cs = << >> THEN g
    ELSE LET childNode == Head(cs)
         IN  IF g[childNode].arcType = "Relocate"
             THEN ElideRelocatedAmong(ix, g, Tail(cs))
             ELSE IF /\ CanContributeSpecs(g, childNode)
                     /\ \E r \in IncrementalRelocatesSourceToTarget(
                                     g[childNode].ls) :
                            r[1] = g[childNode].path
             THEN ElideRelocatedAmong(ix, _ElideSubtree(ix, g, childNode),
                                      Tail(cs))
             ELSE ElideRelocatedAmong(
                      ix, _ElideRelocatedSubtrees(ix, g, childNode), Tail(cs))

\* The nodes of the sub-trees that the loop over the children elides.
ElidedForRelocation(g, node) ==
    UNION {SubtreeSet(g, c) :
              c \in {d \in ChildSet(g, node) :
                         g[d].arcType \notin {"Variant", "Root"}}}

RECURSIVE ElideChildrenForRelocation(_, _, _)
ElideChildrenForRelocation(ix, g, cs) ==
    IF cs = << >> THEN g
    ELSE IF g[Head(cs)].arcType \in {"Variant", "Root"}
    THEN ElideChildrenForRelocation(ix, g, Tail(cs))
    ELSE ElideChildrenForRelocation(ix, _ElideSubtree(ix, g, Head(cs)),
                                    Tail(cs))

_EvalNodeRelocations(ix, node) ==
    LET g == ix.g
        hits == {r \in IncrementalRelocatesSourceToTarget(g[node].ls) :
                    r[2] = g[node].path}
        relocSource == (CHOOSE r \in hits : TRUE)[1]
    IN
    IF ~CanContributeSpecs(g, node) /\ GetDepthBelowIntroduction(g, node) = 0
    THEN ix
    ELSE IF hits = {} THEN ix
    ELSE
    With(Call("_AddArc",
              << [ix EXCEPT !.g = ElideChildrenForRelocation(
                                      ix, g, Children(g, node)),
                            !.elided = @ \cup ElidedForRelocation(g, node)],
                 ArcArgsAtParent(g, "Relocate", node, node,
                                 MkSite(g[node].ls, relocSource),
                                 MapIdentity, 0, FALSE, TRUE, FALSE) >>),
         LAMBDA ix2 :
    LET newNode == ix2.ret
    IN
    IF newNode = NoNode THEN ix2
    ELSE
    With(IF PcpComposeSiteHasPrimSpecs(ix2.g[newNode].ls,
                                       ix2.g[newNode].path)
         THEN RecordError(ix2, MkError("OpinionAtRelocationSource",
                                       NodeSite(ix2.g, newNode)))
         ELSE ix2, LAMBDA ix3 :
        [ix3 EXCEPT !.g = _ElideRelocatedSubtrees(ix3, ix3.g, newNode)]))

_EvalImpliedRelocations(ix, node) ==
    LET g == ix.g
        parent == g[node].parent
        gp == g[parent].parent
        gpRelocSource == MapSourceToTarget(g[parent].mapToParent, g[node].path)
    IN  IF g[node].arcType # "Relocate" \/ IsDueToAncestor(g, node) THEN ix
        ELSE IF parent = NoNode THEN ix
        ELSE IF gp = NoNode THEN ix
        ELSE IF IsEmptyPath(gpRelocSource) THEN ix
        ELSE IF \E c \in ChildSet(g, gp) :
                    g[c].path = gpRelocSource /\ g[c].arcType = "Relocate"
        THEN ix
        ELSE Call("_AddArc",
                  << ix, ArcArgsAtParent(g, "Relocate", gp, node,
                                         MkSite(g[gp].ls, gpRelocSource),
                                         MapIdentity, 0, FALSE, FALSE,
                                         FALSE) >>)

(***************************************************************************)
(* Class-based arcs.                                                       *)
(***************************************************************************)
RECURSIVE FindMatchingAmong(_, _, _, _, _, _, _)
FindMatchingAmong(g, cs, parentArcType, site, arcType, mapToParent, depthBelowIntroduction) ==
    IF cs = << >> THEN NoNode
    ELSE LET child == Head(cs)
             match ==
                 IF parentArcType = "Relocate"
                 THEN /\ g[child].arcType = arcType
                      /\ g[child].mapToParent = mapToParent
                      /\ GetDepthBelowIntroduction(g, g[child].origin)
                             = depthBelowIntroduction
                 ELSE NodeSite(g, child) = site
         IN  IF match THEN child
             ELSE FindMatchingAmong(g, Tail(cs), parentArcType, site, arcType,
                                    mapToParent, depthBelowIntroduction)

\* A search that finds no child.
FindNoMatchingChild(g, parent, parentArcType, site, arcType, mapToParent, depthBelowIntroduction) ==
    NoNode

_FindMatchingChild(g, parent, parentArcType, site, arcType, mapToParent, depthBelowIntroduction) ==
    FindMatchingAmong(g, Children(g, parent), parentArcType, site, arcType,
                      mapToParent, depthBelowIntroduction)

RECURSIVE _FindContainingVariantSelection(_)
_FindContainingVariantSelection(p) ==
    IF IsEmptyPath(p) \/ IsPrimVariantSelectionPath(p) THEN p
    ELSE IF p = AbsoluteRootPath THEN EmptyPath
    ELSE _FindContainingVariantSelection(GetParentPath(p))

_DetermineInheritPath(parentPath, inheritMap) ==
    IF ~ContainsPrimVariantSelection(parentPath)
    THEN MapTargetToSource(inheritMap, parentPath)
    ELSE LET varPath == _FindContainingVariantSelection(parentPath)
             mapped == MapTargetToSource(
                           inheritMap, StripAllVariantSelections(parentPath))
         IN  IF IsEmptyPath(mapped) THEN mapped
             ELSE ReplacePrefix(mapped, StripAllVariantSelections(varPath),
                                varPath)

\* The node added or found is left in ret.
_AddClassBasedArc(ix, arcType, parent, origin, inheritMap, inheritArcNum, ignoreIfSameAsSite) ==
    LET g == ix.g
    IN
    With(_DetermineInheritPath(g[parent].path, inheritMap),
         LAMBDA inheritPath :
    LET parentArcType == IterGetArcType(MkIter(g, parent, ix.frames))
        inheritSite == MkSite(g[parent].ls, inheritPath)
        shouldContributeSpecs == /\ inheritPath # g[parent].path
                                 /\ inheritSite # ignoreIfSameAsSite
        skipDuplicateNodes == shouldContributeSpecs
        includeAncestralOpinions ==
            shouldContributeSpecs /\ ~IsRootPrimPath(inheritPath)
    IN
    IF IsEmptyPath(inheritPath) THEN [ix EXCEPT !.ret = NoNode]
    ELSE
    With(_FindMatchingChild(g, parent, parentArcType, inheritSite,
                            arcType, inheritMap,
                            GetDepthBelowIntroduction(g, origin)),
         LAMBDA child :
        IF child # NoNode THEN [ix EXCEPT !.ret = child]
        ELSE Call("_AddArc",
                  << ix, ArcArgsAtParent(g, arcType, parent, origin,
                                         inheritSite, inheritMap,
                                         inheritArcNum, shouldContributeSpecs,
                                         includeAncestralOpinions,
                                         skipDuplicateNodes) >>)))

RECURSIVE AddClassBasedArcsFrom(_, _, _, _, _)
AddClassBasedArcsFrom(ix, node, classArcs, arcType, arcNum) ==
    IF arcNum >= Len(classArcs) THEN ix
    ELSE LET arcPath == classArcs[arcNum + 1]
             mapExpr == AddRootIdentity(
                            _CreateMapExpressionForArc(arcPath, ix.g, node,
                                                       ix.inputs))
         IN  IF ~IsEmptyPath(arcPath) /\ ~IsValidArcPrimPath(arcPath)
             THEN AddClassBasedArcsFrom(
                      RecordError(ix, MkError("InvalidPrimPath",
                                              NodeSite(ix.g, node))),
                      node, classArcs, arcType, arcNum + 1)
             ELSE AddClassBasedArcsFrom(
                      _AddClassBasedArc(ix, arcType, node, node, mapExpr,
                                        arcNum, NoSite),
                      node, classArcs, arcType, arcNum + 1)

_AddClassBasedArcs(ix, node, classArcs, arcType) ==
    AddClassBasedArcsFrom(ix, node, classArcs, arcType, 0)

_GetImpliedClass(transfer, classArc) ==
    IF transfer = MapIdentity THEN classArc
    ELSE AddRootIdentity(
             MapCompose(transfer, MapCompose(classArc, MapInverse(transfer))))

_IsPropagatedSpecializesNode(g, node) ==
    /\ PcpIsSpecializeArc(g[node].arcType)
    /\ g[node].parent = RootIdx
    /\ g[node].origin # NoNode
    /\ NodeSite(g, node) = NodeSite(g, g[node].origin)

RECURSIVE FindImpliedChild(_, _, _, _)
FindImpliedChild(g, cs, srcChild, destClassFunc) ==
    IF cs = << >> THEN NoNode
    ELSE IF g[Head(cs)].origin = srcChild
            /\ g[Head(cs)].mapToParent = destClassFunc
    THEN Head(cs)
    ELSE FindImpliedChild(g, Tail(cs), srcChild, destClassFunc)

RECURSIVE _EvalImpliedClassTree(_, _, _, _, _)
RECURSIVE EvalImpliedClassChildren(_, _, _, _, _, _)
_EvalImpliedClassTree(ix, destNode, srcNode, transferFunc, srcNodeIsStartOfTree) ==
    IF ix.g[destNode].arcType = "Relocate"
    THEN AddTask(
             _EvalImpliedClassTree(
                 ix, ix.g[destNode].parent, srcNode,
                 MapCompose(AddRootIdentity(ix.g[destNode].mapToParent),
                            transferFunc),
                 srcNodeIsStartOfTree),
             Task("EvalImpliedClasses", destNode))
    ELSE EvalImpliedClassChildren(ix, destNode, srcNode, transferFunc,
                                  srcNodeIsStartOfTree,
                                  Children(ix.g, srcNode))

EvalImpliedClassChildren(ix, destNode, srcNode, transferFunc, srcNodeIsStartOfTree, cs) ==
    IF cs = << >> THEN ix
    ELSE
    LET g == ix.g
        srcChild == Head(cs)
        next(ixn) == EvalImpliedClassChildren(ixn, destNode, srcNode,
                                              transferFunc,
                                              srcNodeIsStartOfTree, Tail(cs))
    IN
    IF ~PcpIsClassBasedArc(g[srcChild].arcType) THEN next(ix)
    ELSE IF /\ srcNodeIsStartOfTree
            /\ PcpIsClassBasedArc(g[srcNode].arcType)
            /\ GetDepthBelowIntroduction(g, srcNode)
                   = GetDepthBelowIntroduction(g, srcChild)
    THEN next(ix)
    ELSE
    With(_GetImpliedClass(transferFunc,
                          g[srcChild].mapToParent), LAMBDA destClassFunc :
    With(FindImpliedChild(g, Children(g, destNode), srcChild,
                          destClassFunc), LAMBDA found :
    With(IF found # NoNode THEN [ix EXCEPT !.ret = found]
         ELSE _AddClassBasedArc(ix, g[srcChild].arcType, destNode,
                                srcChild, destClassFunc,
                                g[srcChild].siblingNum,
                                NodeSite(g, srcChild)), LAMBDA ix1 :
    LET destChild == ix1.ret
        childTransferFunc ==
            MapCompose(MapInverse(destClassFunc),
                       MapCompose(transferFunc, g[srcChild].mapToParent))
    IN  IF destChild # NoNode /\ _HasClassBasedChild(ix1.g, srcChild)
        THEN next(_EvalImpliedClassTree(ix1, destChild, srcChild,
                                        childTransferFunc, FALSE))
        ELSE next(ix1))))

\* An evaluation of implied classes that adds none.
_EvalImpliedClassesAddsNone(ix, node) == ix

_EvalImpliedClasses(ix, node) ==
    IF ix.g[node].parent = NoNode THEN ix
    ELSE IF _IsPropagatedSpecializesNode(ix.g, node) THEN ix
    ELSE IF ~_HasClassBasedChild(ix.g, node) THEN ix
    ELSE _EvalImpliedClassTree(ix, ix.g[node].parent, node,
                               AddRootIdentity(ix.g[node].mapToParent), TRUE)

_EvalNodeInherits(ix, node) ==
    IF ~CanContributeSpecs(ix.g, node) THEN ix
    ELSE _AddClassBasedArcs(
             ix, node, PcpComposeSiteInherits(ix.g[node].ls, ix.g[node].path),
             "Inherit")

_EvalNodeSpecializes(ix, node) ==
    IF ~CanContributeSpecs(ix.g, node) THEN ix
    ELSE _AddClassBasedArcs(
             ix, node,
             PcpComposeSiteSpecializes(ix.g[node].ls, ix.g[node].path),
             "Specialize")

(***************************************************************************)
(* Implied specializes.                                                    *)
(***************************************************************************)
_IsNodeInSubtree(g, node, subtreeRoot) ==
    node # NoNode /\ subtreeRoot \in ({node} \cup AncestorsOf(g, node))

\* The node the source was propagated to (or NoNode) is left in ret.
_PropagateNodeToParent(ix, parentNode, srcNode, skipImpliedSpecializes, skipTasksForExpressedArcs, mapToParent, srcTreeRoot) ==
    LET g == ix.g
        src == g[srcNode]
    IN
    IF src.parent = parentNode THEN [ix EXCEPT !.ret = srcNode]
    ELSE
    With(_IsImpliedClassBasedArc(src.arcType, src.parent, src.origin),
         LAMBDA implied :
    With(_FindMatchingChild(g, parentNode, g[parentNode].arcType,
                            NodeSite(g, srcNode), src.arcType,
                            mapToParent,
                            GetDepthBelowIntroduction(g, srcNode)),
         LAMBDA found :
    With(IF srcNode = srcTreeRoot
         THEN NonVariantPathElementCount(g[parentNode].path)
         ELSE src.namespaceDepth, LAMBDA namespaceDepth :
    LET originNode == IF srcNode = srcTreeRoot \/ implied THEN srcNode
                      ELSE parentNode
    IN
    With(IF found # NoNode THEN [ix EXCEPT !.ret = found]
         ELSE IF ~implied \/ ~_IsNodeInSubtree(g, src.origin, srcTreeRoot)
         THEN Call("_AddArc", << ix,
                                 ArcArgs(src.arcType, parentNode, originNode,
                                         NodeSite(g, srcNode), mapToParent,
                                         src.siblingNum, namespaceDepth,
                                         ~src.inert, FALSE, FALSE,
                                         skipImpliedSpecializes,
                                         skipTasksForExpressedArcs) >>)
         ELSE [ix EXCEPT !.ret = NoNode], LAMBDA ix1 :
    LET newNode == ix1.ret
        s1 == ix1.g[srcNode]
    IN
    With(IF newNode # NoNode
         THEN [[ix1.g EXCEPT ![newNode].inert = s1.inert,
                             ![newNode].hasSymmetry = s1.hasSymmetry,
                             ![newNode].permission = s1.permission,
                             ![newNode].restricted = s1.restricted]
                  EXCEPT ![srcNode].inert = TRUE]
         ELSE _InertSubtree(ix1.g, srcNode), LAMBDA g2 :
        [ix1 EXCEPT !.g = g2])))))

\* A propagation to the root that leaves the tree where it is.
_PropagateNoSpecializesTree(ix, parentNode, srcNode, originNode, mapToParent, srcTreeRoot) == ix

RECURSIVE _PropagateSpecializesTreeToRoot(_, _, _, _, _, _)
RECURSIVE PropagateSpecializesChildren(_, _, _, _)
_PropagateSpecializesTreeToRoot(ix, parentNode, srcNode, originNode, mapToParent, srcTreeRoot) ==
    With(_PropagateNodeToParent(ix, parentNode, srcNode, TRUE, FALSE,
                                mapToParent, srcTreeRoot), LAMBDA ix1 :
        IF ix1.ret = NoNode THEN ix1
        ELSE PropagateSpecializesChildren(ix1, ix1.ret,
                                          Children(ix1.g, srcNode),
                                          srcTreeRoot))

PropagateSpecializesChildren(ix, newNode, cs, srcTreeRoot) ==
    IF cs = << >> THEN ix
    ELSE IF PcpIsSpecializeArc(ix.g[Head(cs)].arcType)
    THEN PropagateSpecializesChildren(ix, newNode, Tail(cs), srcTreeRoot)
    ELSE PropagateSpecializesChildren(
             _PropagateSpecializesTreeToRoot(
                 ix, newNode, Head(cs), newNode, ix.g[Head(cs)].mapToParent,
                 srcTreeRoot),
             newNode, Tail(cs), srcTreeRoot)

\* A search for specializes arcs that propagates none of them.
_FindSpecializesAndLeaveThem(ix, node) == ix

RECURSIVE _FindSpecializesToPropagateToRoot(_, _)
RECURSIVE FindSpecializesAmong(_, _)
_FindSpecializesToPropagateToRoot(ix, node) ==
    LET g == ix.g
        parentNode == g[node].parent
        nodeIsRelocatesPlaceholder ==
            /\ parentNode # g[node].origin
            /\ g[parentNode].arcType = "Relocate"
            /\ NodeSite(g, parentNode) = NodeSite(g, node)
    IN
    IF nodeIsRelocatesPlaceholder THEN ix
    ELSE
    With(IF PcpIsSpecializeArc(g[node].arcType)
         THEN _PropagateSpecializesTreeToRoot(
                  [ix EXCEPT !.g[node].inert = FALSE], RootIdx, node,
                  node, GetMapToRoot(g, node), node)
         ELSE ix, LAMBDA ix1 :
        FindSpecializesAmong(ix1, Children(ix1.g, node)))

FindSpecializesAmong(ix, cs) ==
    IF cs = << >> THEN ix
    ELSE FindSpecializesAmong(_FindSpecializesToPropagateToRoot(ix, Head(cs)),
                              Tail(cs))

RECURSIVE _PropagateArcsToOrigin(_, _, _, _, _)
RECURSIVE PropagateArcsAmong(_, _, _, _)
_PropagateArcsToOrigin(ix, parentNode, srcNode, mapToParent, srcTreeRoot) ==
    With(_PropagateNodeToParent(ix, parentNode, srcNode, FALSE, TRUE,
                                mapToParent, srcTreeRoot), LAMBDA ix1 :
        IF ix1.ret = NoNode THEN ix1
        ELSE PropagateArcsAmong(ix1, ix1.ret, Children(ix1.g, srcNode),
                                srcTreeRoot))

PropagateArcsAmong(ix, parentNode, cs, srcTreeRoot) ==
    IF cs = << >> THEN ix
    ELSE PropagateArcsAmong(
             _PropagateArcsToOrigin(ix, parentNode, Head(cs),
                                    ix.g[Head(cs)].mapToParent, srcTreeRoot),
             parentNode, Tail(cs), srcTreeRoot)

\* A search for arcs to propagate to the origin that propagates none.
_FindArcsAndLeaveThem(ix, node) == ix

_FindArcsToPropagateToOrigin(ix, node) ==
    PropagateArcsAmong(ix, ix.g[node].origin, Children(ix.g, node), node)

_EvalImpliedSpecializes(ix, node) ==
    IF ix.g[node].parent = NoNode THEN ix
    ELSE IF _IsPropagatedSpecializesNode(ix.g, node)
    THEN _FindArcsToPropagateToOrigin(ix, node)
    ELSE _FindSpecializesToPropagateToRoot(ix, node)

(***************************************************************************)
(* Variants.  A search for a selection yields [found, vsel] and the node   *)
(* with the selection: its index and the stack level of its graph.         *)
(***************************************************************************)
NoSelection == [found |-> FALSE, vsel |-> "", node |-> NoNode, lvl |-> 0]

\* The graph a stack level stands for: level 0 is the graph being built,
\* level i the parent graph of the i-th enclosing stack frame.
GraphAt(ix, lvl) == IF lvl = 0 THEN ix.g ELSE ix.frames[lvl].g

PcpComposeSiteHasVariantSelection(ls, path, vset) ==
    \E pr \in SpecAt(ls, path).vsel : pr[1] = vset

GetVariantSelection(p) ==
    IF IsPrimVariantSelectionPath(p) THEN << p[Len(p)][2], p[Len(p)][3] >>
    ELSE << "", "" >>

_ComposeVariantSelectionForNode(g, node, pathInNode, vset) ==
    With(IF g[node].arcType = "Variant"
         THEN ReplacePrefix(pathInNode,
                            StripAllVariantSelections(g[node].path),
                            g[node].path)
         ELSE pathInNode, LAMBDA path :
        IF /\ CanContributeSpecs(g, node)
           /\ PcpComposeSiteHasVariantSelection(g[node].ls, path, vset)
        THEN [found |-> TRUE,
              vsel |-> PcpComposeSiteVariantSelection(g[node].ls, path, vset),
              node |-> node, lvl |-> 0]
        ELSE NoSelection)

RECURSIVE _FindPriorVariantSelection(_, _, _, _, _)
RECURSIVE FindPriorAmong(_, _, _, _, _)
_FindPriorVariantSelection(g, node, pathInRoot, ancestorRecursionDepth, vset) ==
    With(GetPathAtIntroduction(g, node), LAMBDA nodePathAtIntroduction :
    With(GetVariantSelection(nodePathAtIntroduction), LAMBDA nodeVsel :
    With(/\ g[node].arcType = "Variant"
         /\ GetDepthBelowIntroduction(g, node)
                = ancestorRecursionDepth
         /\ nodeVsel[1] = vset, LAMBDA candidate :
    With(MapTargetToSource(GetMapToRoot(g, node), pathInRoot),
         LAMBDA pathInNode :
        IF candidate /\ IsEmptyPath(pathInNode) THEN NoSelection
        ELSE IF candidate /\ GetPrimPath(nodePathAtIntroduction) = pathInNode
        THEN [found |-> TRUE, vsel |-> nodeVsel[2], node |-> node, lvl |-> 0]
        ELSE FindPriorAmong(g, Children(g, node), pathInRoot,
                            ancestorRecursionDepth, vset)))))

FindPriorAmong(g, cs, pathInRoot, ancestorRecursionDepth, vset) ==
    IF cs = << >> THEN NoSelection
    ELSE LET r == _FindPriorVariantSelection(g, Head(cs), pathInRoot,
                                             ancestorRecursionDepth, vset)
         IN  IF r.found THEN r
             ELSE FindPriorAmong(g, Tail(cs), pathInRoot,
                                 ancestorRecursionDepth, vset)

\* The result carries the stack frames left to cross.
RECURSIVE _ComposeVariantSelectionAcrossStackFrames(_, _, _, _, _, _)
RECURSIVE ComposeVariantSelectionAmong(_, _, _, _, _, _)
_ComposeVariantSelectionAcrossStackFrames(ix, lvl, node, pathInNode, vset, stackFrames) ==
    With(GraphAt(ix, lvl), LAMBDA g :
    With(_ComposeVariantSelectionForNode(g, node, pathInNode, vset),
         LAMBDA own :
    With(/\ stackFrames # << >>
         /\ stackFrames[Len(stackFrames)].lvl = lvl
         /\ stackFrames[Len(stackFrames)].frame.parentNode = node,
         LAMBDA atEndOfStack :
    LET nextFrame == stackFrames[Len(stackFrames)]
        rest == SubSeq(stackFrames, 1, Len(stackFrames) - 1)
    IN
    IF own.found
    THEN [found |-> TRUE, vsel |-> own.vsel, stack |-> stackFrames,
          node |-> node, lvl |-> lvl]
    ELSE IF ~atEndOfStack
    THEN ComposeVariantSelectionAmong(ix, lvl, Children(g, node),
                                      pathInNode, vset, stackFrames)
    ELSE
    With(MapTargetToSource(nextFrame.frame.arcToParent.mapToParent,
                           pathInNode), LAMBDA pathInChildNode :
        IF ~IsEmptyPath(pathInChildNode)
        THEN _ComposeVariantSelectionAcrossStackFrames(
                 ix, nextFrame.childLvl, nextFrame.childNode,
                 pathInChildNode, vset, rest)
        ELSE [found |-> FALSE, vsel |-> "", stack |-> rest,
              node |-> NoNode, lvl |-> 0]))))

ComposeVariantSelectionAmong(ix, lvl, cs, pathInNode, vset, stackFrames) ==
    IF cs = << >>
    THEN [found |-> FALSE, vsel |-> "", stack |-> stackFrames,
          node |-> NoNode, lvl |-> 0]
    ELSE LET pathInChildNode ==
                 MapTargetToSource(GraphAt(ix, lvl)[Head(cs)].mapToParent,
                                   pathInNode)
             r == _ComposeVariantSelectionAcrossStackFrames(
                      ix, lvl, Head(cs), pathInChildNode, vset, stackFrames)
         IN  IF IsEmptyPath(pathInChildNode)
             THEN ComposeVariantSelectionAmong(ix, lvl, Tail(cs), pathInNode,
                                               vset, stackFrames)
             ELSE IF r.found THEN r
             ELSE ComposeVariantSelectionAmong(ix, lvl, Tail(cs), pathInNode,
                                               vset, r.stack)

_ConvertToRootNodeAndPath(g, node, path) ==
    IF g[node].parent = NoNode
    THEN [node |-> node, path |-> path, ok |-> TRUE]
    ELSE LET mapped == MapSourceToTarget(GetMapToRoot(g, node), path)
         IN  [node |-> RootIdx, path |-> mapped, ok |-> ~IsEmptyPath(mapped)]

\* The walk over the enclosing stack frames, then the strength-order search.
RECURSIVE ComposeVariantSelectionFrom(_, _, _, _, _, _, _)
ComposeVariantSelectionFrom(ix, i, rootNode, lvl, pathInRoot, vset, previousStackFrames) ==
    With(_ComposeVariantSelectionAcrossStackFrames(
             ix, lvl, rootNode, pathInRoot, vset,
             previousStackFrames), LAMBDA search :
    LET previousFrame == ix.frames[i]
    IN
    IF i > Len(ix.frames)
    THEN [found |-> search.found, vsel |-> search.vsel,
          node |-> search.node, lvl |-> search.lvl]
    ELSE
    With(MapSourceToTarget(previousFrame.arcToParent.mapToParent,
                           pathInRoot), LAMBDA pathInPreviousFrame :
    With(_ConvertToRootNodeAndPath(previousFrame.g,
                                   previousFrame.parentNode,
                                   pathInPreviousFrame), LAMBDA conv :
    IF IsEmptyPath(pathInPreviousFrame) \/ ~conv.ok
    THEN [found |-> search.found, vsel |-> search.vsel,
          node |-> search.node, lvl |-> search.lvl]
    ELSE
    With(_FindPriorVariantSelection(previousFrame.g, conv.node,
                                    conv.path,
                                    ix.ancestorRecursionDepth, vset),
         LAMBDA prior :
        IF prior.found THEN [prior EXCEPT !.lvl = i]
        ELSE ComposeVariantSelectionFrom(
                 ix, i + 1, conv.node, i, conv.path, vset,
                 Append(previousStackFrames,
                        [frame |-> previousFrame, lvl |-> i,
                         childNode |-> rootNode, childLvl |-> lvl]))))))

_ComposeVariantSelection(ix, node, pathInNode, vset) ==
    With(_ConvertToRootNodeAndPath(ix.g, node, pathInNode), LAMBDA conv :
    With(_FindPriorVariantSelection(ix.g, conv.node, conv.path,
                                    ix.ancestorRecursionDepth, vset),
         LAMBDA prior :
        IF prior.found THEN prior
        ELSE ComposeVariantSelectionFrom(ix, 1, conv.node, 0, conv.path, vset,
                                         << >>)))

\* The setting MENV30_ENABLE_NEW_DEFAULT_STANDIN_BEHAVIOR of the scene.
PcpIsNewDefaultStandinBehaviorEnabled(inp) == Scene(inp).newDefaultStandin

\* A layer of the layer stack stronger than its root layer authors the
\* selection at the path.
SessionLayerSelects(ls, path, vset, vsel) ==
    << ls.name, path, vset, vsel >> \in SceneOf(ls).sessionSelections

\* The decision with the new "standin" behaviour only.
_ShouldUseFallbackWhenUnselected(ix, vset, sel, vselFallback) ==
    vselFallback # "" /\ sel.vsel = ""

\* sel is the selection found, with the node it was found at.
_ShouldUseVariantFallback(ix, vset, sel, vselFallback) ==
    LET g == GraphAt(ix, sel.lvl)
        nodeWithVsel == sel.node
    IN
    IF vselFallback = "" THEN FALSE
    ELSE IF sel.vsel = "" THEN TRUE
    ELSE IF vset # "standin" THEN FALSE
    ELSE IF PcpIsNewDefaultStandinBehaviorEnabled(ix.inputs) THEN FALSE
    ELSE IF /\ g[nodeWithVsel].arcType = "Variant"
            /\ IsPrimVariantSelectionPath(g[nodeWithVsel].path)
            /\ GetVariantSelection(g[nodeWithVsel].path)[1] = vset
    THEN FALSE
    ELSE IF \E n \in {nodeWithVsel} \cup AncestorsOf(g, nodeWithVsel) :
                g[n].arcType = "Payload"
    THEN TRUE
    ELSE IF SessionLayerSelects(ix.rootSite.ls, ix.rootSite.path, vset,
                                sel.vsel)
    THEN FALSE
    ELSE g[nodeWithVsel].arcType # "Root"

RECURSIVE FirstOptionAmong(_, _)
FirstOptionAmong(prefs, vsetOptions) ==
    IF prefs = << >> THEN ""
    ELSE IF Head(prefs) \in vsetOptions THEN Head(prefs)
    ELSE FirstOptionAmong(Tail(prefs), vsetOptions)

\* A choice that takes the first listed fallback, an option or not.
_ChooseFirstListedFallback(vset, vsetOptions, variantFallbacks) ==
    IF \E i \in 1..Len(variantFallbacks) : variantFallbacks[i][1] = vset
    THEN Head(variantFallbacks[CHOOSE i \in 1..Len(variantFallbacks) :
                                   variantFallbacks[i][1] = vset][2])
    ELSE ""

\* variantFallbacks is a sequence of <<vset, preferences>>.
_ChooseBestFallbackAmongOptions(vset, vsetOptions, variantFallbacks) ==
    With({i \in 1..Len(variantFallbacks) :
             variantFallbacks[i][1] = vset}, LAMBDA hits :
        IF hits = {} THEN ""
        ELSE FirstOptionAmong(variantFallbacks[CHOOSE i \in hits : TRUE][2],
                              vsetOptions))

\* A Variant arc after which the variant tasks are retried whether or not
\* the node was added.
_AddVariantArcAlwaysRetrying(ix, node, vset, vsetNum, vsel) ==
    RetryVariantTasks(
        Call("_AddArc", << ix,
                           ArcArgsAtParent(ix.g, "Variant", node, node,
                                           MkSite(ix.g[node].ls,
                                                  AppendVariantSelection(
                                                      ix.g[node].path, vset,
                                                      vsel)),
                                           MapIdentity, vsetNum, TRUE, FALSE,
                                           FALSE) >>))

_AddVariantArc(ix, node, vset, vsetNum, vsel) ==
    With(AppendVariantSelection(ix.g[node].path, vset, vsel), LAMBDA varPath :
    With(Call("_AddArc", << ix,
                            ArcArgsAtParent(ix.g, "Variant", node, node,
                                            MkSite(ix.g[node].ls, varPath),
                                            MapIdentity, vsetNum, TRUE, FALSE,
                                            FALSE) >>), LAMBDA ix1 :
        IF ix1.ret # NoNode THEN RetryVariantTasks(ix1) ELSE ix1))

RECURSIVE AddVariantSetTasksFrom(_, _, _, _)
AddVariantSetTasksFrom(ix, node, vsetNames, vsetNum) ==
    IF vsetNum >= Len(vsetNames) THEN ix
    ELSE AddVariantSetTasksFrom(
             AddTask(ix, VariantTask("EvalNodeVariantAuthored", node,
                                     vsetNames[vsetNum + 1], vsetNum)),
             node, vsetNames, vsetNum + 1)

\* An evaluation of the variant sets that does not ask whether the node can
\* contribute specs.
EvalNodeVariantSetsOfAnyNode(ix, node) ==
    AddVariantSetTasksFrom(
        ix, node,
        PcpComposeSiteVariantSets(ix.g[node].ls, ix.g[node].path), 0)

_EvalNodeVariantSets(ix, node) ==
    IF ~CanContributeSpecs(ix.g, node) THEN ix
    ELSE AddVariantSetTasksFrom(
             ix, node,
             PcpComposeSiteVariantSets(ix.g[node].ls, ix.g[node].path), 0)

_EvalNodeAuthoredVariant(ix, node, vset, vsetNum) ==
    IF ~CanContributeSpecs(ix.g, node) THEN ix
    ELSE
    LET vsetOptions == PcpComposeSiteVariantSetOptions(
                           ix.g[node].ls, ix.g[node].path, vset)
        vselFallback == _ChooseBestFallbackAmongOptions(
                            vset, vsetOptions, Scene(ix.inputs).fallbacks)
    IN
    With(_ComposeVariantSelection(
             ix, node, StripAllVariantSelections(ix.g[node].path),
             vset), LAMBDA sel :
        IF _ShouldUseVariantFallback(ix, vset, sel, vselFallback)
        THEN AddTask(ix, VariantTask("EvalNodeVariantFallback", node, vset,
                                     vsetNum))
        ELSE IF sel.vsel = ""
        THEN AddTask(ix, VariantTask("EvalNodeVariantNoneFound", node, vset,
                                     vsetNum))
        ELSE _AddVariantArc(ix, node, vset, vsetNum, sel.vsel))

\* A fallback evaluation that finds no fallback.
_EvalNodeFallbackFindsNone(ix, node, vset, vsetNum) ==
    IF ~CanContributeSpecs(ix.g, node) THEN ix
    ELSE AddTask(ix, VariantTask("EvalNodeVariantNoneFound", node, vset,
                                 vsetNum))

_EvalNodeFallbackVariant(ix, node, vset, vsetNum) ==
    IF ~CanContributeSpecs(ix.g, node) THEN ix
    ELSE
    With(_ChooseBestFallbackAmongOptions(
             vset,
             PcpComposeSiteVariantSetOptions(ix.g[node].ls, ix.g[node].path,
                                             vset),
             Scene(ix.inputs).fallbacks), LAMBDA vsel :
        IF vsel = ""
        THEN AddTask(ix, VariantTask("EvalNodeVariantNoneFound", node, vset,
                                     vsetNum))
        ELSE _AddVariantArc(ix, node, vset, vsetNum, vsel))

(***************************************************************************)
(* The task loop of Pcp_BuildPrimIndex.                                    *)
(***************************************************************************)
\* The body of the loop's switch for one popped task.
DispatchTask(ix, task) ==
    CASE task.type = "EvalNodeRelocations" ->
             _EvalNodeRelocations(ix, task.node)
      [] task.type = "EvalImpliedRelocations" ->
             _EvalImpliedRelocations(ix, task.node)
      [] task.type = "EvalNodeReferences" ->
             _EvalNodeReferences(ix, task.node)
      [] task.type = "EvalNodePayload" ->
             _EvalNodePayloads(ix, task.node)
      [] task.type = "EvalNodeInherits" ->
             _EvalNodeInherits(ix, task.node)
      [] task.type = "EvalImpliedClasses" ->
             _EvalImpliedClasses(ix, task.node)
      [] task.type = "EvalNodeSpecializes" ->
             _EvalNodeSpecializes(ix, task.node)
      [] task.type = "EvalImpliedSpecializes" ->
             _EvalImpliedSpecializes(ix, task.node)
      [] task.type = "EvalNodeVariantSets" ->
             _EvalNodeVariantSets(ix, task.node)
      [] task.type = "EvalNodeVariantAuthored" ->
             _EvalNodeAuthoredVariant(ix, task.node, task.vsetName,
                                      task.vsetNum)
      [] task.type = "EvalNodeVariantFallback" ->
             _EvalNodeFallbackVariant(ix, task.node, task.vsetName,
                                      task.vsetNum)
      [] OTHER -> ix

\* One turn of the task loop: the task popped and the indexer after the task
\* ran; with no task left, the indexer after the final steps of the build.
LoopTurn(ix) ==
    With(PopTaskResult(ix), LAMBDA task :
        [task |-> task,
         ix |-> IF task.type = "None" THEN FinishPrimIndex(ix)
                ELSE Call("DispatchTask", << PopTask(ix), task >>)])

\* A call of one of the mutually recursive routines, or a look at the scene.
Call(fn, args) ==
    CASE fn = "Scene" -> Cases[args[1]]
      [] fn = "_AddArc" -> _AddArc(args[1], args[2])
      [] fn = "DispatchTask" -> DispatchTask(args[1], args[2])
      [] fn = "InitialIndexer" ->
             InitialIndexer(args[1], args[2], args[3], args[4], args[5],
                            args[6], args[7], args[8])
      [] fn = "Pcp_BuildPrimIndex" ->
             Pcp_BuildPrimIndex(args[1], args[2], args[3], args[4], args[5],
                                args[6], args[7], args[8])
      [] fn = "PcpComputePrimIndex" -> PcpComputePrimIndex(args[1], args[2])
      [] fn = "SortSiblings" -> SortSiblings(args[1], args[2])
      [] fn = "LoopTurn" -> LoopTurn(args[1])

(***************************************************************************)
(* PcpComputePrimIndex as a state machine: the outermost build takes one   *)
(* step for every task it pops; the builds nested in it run within a step. *)
(***************************************************************************)
\* Depth of the prim paths asked for.
MaxPathDepth == 3

ScenePaths(c) ==
    {StripAllVariantSelections(s.path) :
        s \in {t \in Cases[c].specs : t.ls = RootLayerStackName}}

InputSet ==
    {[case |-> c, path |-> p, cull |-> b] :
        c \in 1..Len(Cases), p \in UNION {ScenePaths(k) : k \in 1..Len(Cases)},
        b \in BOOLEAN}

ValidInput(inp) ==
    /\ inp.path \in ScenePaths(inp.case)
    /\ Len(inp.path) <= MaxPathDepth

\* The indexer of the outermost build, read from the variables.
TopIndexer ==
    [NewOutputs EXCEPT
        !.g = graph, !.tasks = tasks, !.uniq = taskUniq,
        !.allErrors = allErrors, !.errors = errors,
        !.hasPayloads = hasPayloads, !.payloadState = payloadState,
        !.diverged = diverged, !.elided = elided, !.cullBroken = cullBroken,
        !.rootSite = MkSite(CacheLayerStack(inputs), inputs.path),
        !.evaluateImpliedSpecializes = TRUE, !.evaluateVariants = TRUE,
        !.inputs = inputs]

Store(ix) ==
    /\ graph' = ix.g
    /\ tasks' = ix.tasks
    /\ taskUniq' = ix.uniq
    /\ allErrors' = ix.allErrors
    /\ errors' = ix.errors
    /\ hasPayloads' = ix.hasPayloads
    /\ payloadState' = ix.payloadState
    /\ calls' = ix.calls
    /\ diverged' = ix.diverged
    /\ cullBroken' = ix.cullBroken
    /\ elided' = ix.elided

\* Pcp_BuildPrimIndex has run up to the start of its task loop.
InitFor(inp) ==
    /\ inputs = inp
    /\ \E ix \in {Call("InitialIndexer", << MkSite(CacheLayerStack(inp), inp.path),
                                           MkSite(CacheLayerStack(inp), inp.path),
                                           0, TRUE, TRUE, TRUE, << >>, inp >>)} :
           /\ graph = ix.g
           /\ tasks = ix.tasks
           /\ taskUniq = ix.uniq
           /\ allErrors = ix.allErrors
           /\ errors = ix.errors
           /\ hasPayloads = ix.hasPayloads
           /\ payloadState = ix.payloadState
           /\ calls = ix.calls
           /\ diverged = ix.diverged
           /\ cullBroken = ix.cullBroken
    /\ elided = {}
    /\ pc = "loop"
    /\ dispatched = << >>

\* No second computation runs.
NoComputation == [pc |-> "none"]

Init ==
    /\ \E inp \in {i \in InputSet : ValidInput(i)} : InitFor(inp)
    /\ other = NoComputation

\* One turn of the loop that pops a task of the given type.
Step(type) ==
    /\ pc = "loop"
    /\ Len(dispatched) < MaxSteps
    /\ \E turn \in {Call("LoopTurn", << TopIndexer >>)} :
           /\ turn.task.type = type
           /\ Store(turn.ix)
           /\ dispatched' = Append(dispatched, turn.task)
    /\ UNCHANGED << inputs, pc, other >>

EvalNodeRelocations == Step("EvalNodeRelocations")

EvalImpliedRelocations == Step("EvalImpliedRelocations")

EvalNodeReferences == Step("EvalNodeReferences")

EvalNodePayload == Step("EvalNodePayload")

EvalNodeInherits == Step("EvalNodeInherits")

EvalImpliedClasses == Step("EvalImpliedClasses")

EvalNodeSpecializes == Step("EvalNodeSpecializes")

EvalImpliedSpecializes == Step("EvalImpliedSpecializes")

EvalNodeVariantSets == Step("EvalNodeVariantSets")

EvalNodeVariantAuthored == Step("EvalNodeVariantAuthored")

EvalNodeVariantFallback == Step("EvalNodeVariantFallback")

EvalNodeVariantNoneFound == Step("EvalNodeVariantNoneFound")

\* The queue is empty: the loop ends and PcpComputePrimIndex finishes.
TasksDone ==
    /\ pc = "loop"
    /\ \E turn \in {Call("LoopTurn", << TopIndexer >>)} :
           /\ turn.task.type = "None"
           /\ Store(turn.ix)
    /\ pc' = "done"
    /\ UNCHANGED << inputs, dispatched, other >>

Next ==
    \/ EvalNodeRelocations
    \/ EvalImpliedRelocations
    \/ EvalNodeReferences
    \/ EvalNodePayload
    \/ EvalNodeInherits
    \/ EvalImpliedClasses
    \/ EvalNodeSpecializes
    \/ EvalImpliedSpecializes
    \/ EvalNodeVariantSets
    \/ EvalNodeVariantAuthored
    \/ EvalNodeVariantFallback
    \/ EvalNodeVariantNoneFound
    \/ TasksDone

Spec == Init /\ [][Next]_vars

(***************************************************************************)
(* Two calls of PcpComputePrimIndex on one cache, each with its own        *)
(* outputs and indexer, their task loops interleaved step by step.  They   *)
(* share the scene and the include set, which neither writes.              *)
(***************************************************************************)
\* The prims whose indices are computed side by side: scene and two paths.
ParallelPrims ==
    { << 3, P1("P"), P2("N", "I") >>, << 3, P2("M", "I"), P1("P") >>,
      << 7, P1("P"), P1("S") >> }

InputPairs ==
    {<< [case |-> pp[1], path |-> pp[2], cull |-> b],
        [case |-> pp[1], path |-> pp[3], cull |-> b] >> :
        pp \in ParallelPrims, b \in BOOLEAN}

\* The state of the second computation, of an indexer at the given step.
Computation(ix, tasksPopped, where) ==
    [inputs |-> ix.inputs, g |-> ix.g, tasks |-> ix.tasks, uniq |-> ix.uniq,
     allErrors |-> ix.allErrors, errors |-> ix.errors,
     hasPayloads |-> ix.hasPayloads, payloadState |-> ix.payloadState,
     diverged |-> ix.diverged, dispatched |-> tasksPopped, pc |-> where]

\* An indexer of the second computation that keeps no set of pending
\* implied tasks of its own and looks into the first computation's.
OtherIndexerSharingTaskUniq(o) ==
    [NewOutputs EXCEPT
        !.g = o.g, !.tasks = o.tasks, !.uniq = taskUniq,
        !.allErrors = o.allErrors, !.errors = o.errors,
        !.hasPayloads = o.hasPayloads, !.payloadState = o.payloadState,
        !.diverged = o.diverged,
        !.rootSite = MkSite(CacheLayerStack(o.inputs), o.inputs.path),
        !.evaluateImpliedSpecializes = TRUE, !.evaluateVariants = TRUE,
        !.inputs = o.inputs]

\* The indexer of the second computation: it has outputs and a queue of its
\* own.
OtherIndexer(o) ==
    [NewOutputs EXCEPT
        !.g = o.g, !.tasks = o.tasks, !.uniq = o.uniq,
        !.allErrors = o.allErrors, !.errors = o.errors,
        !.hasPayloads = o.hasPayloads, !.payloadState = o.payloadState,
        !.diverged = o.diverged,
        !.rootSite = MkSite(CacheLayerStack(o.inputs), o.inputs.path),
        !.evaluateImpliedSpecializes = TRUE, !.evaluateVariants = TRUE,
        !.inputs = o.inputs]

ParallelInit ==
    \E pair \in InputPairs :
        /\ InitFor(pair[1])
        /\ \E ix \in {Call("InitialIndexer",
                            << MkSite(CacheLayerStack(pair[2]), pair[2].path),
                               MkSite(CacheLayerStack(pair[2]), pair[2].path),
                               0, TRUE, TRUE, TRUE, << >>, pair[2] >>)} :
               other = Computation(ix, << >>, "loop")

\* One turn of the first computation's loop.
FirstStep == \E i \in 1..Len(TaskTypes) : Step(TaskTypes[i])

\* One turn of the second computation's loop.
OtherStep ==
    /\ other.pc = "loop"
    /\ Len(other.dispatched) < MaxSteps
    /\ \E turn \in {Call("LoopTurn", << OtherIndexer(other) >>)} :
           /\ turn.task.type # "None"
           /\ other' = Computation(turn.ix,
                                   Append(other.dispatched, turn.task), "loop")
    /\ UNCHANGED << inputs, graph, tasks, taskUniq, allErrors, errors,
                    hasPayloads, payloadState, pc, dispatched, calls,
                    diverged, elided, cullBroken >>

\* The second computation's queue is empty: it finishes.
OtherDone ==
    /\ other.pc = "loop"
    /\ \E turn \in {Call("LoopTurn", << OtherIndexer(other) >>)} :
           /\ turn.task.type = "None"
           /\ other' = Computation(turn.ix, other.dispatched, "done")
    /\ UNCHANGED << inputs, graph, tasks, taskUniq, allErrors, errors,
                    hasPayloads, payloadState, pc, dispatched, calls,
                    diverged, elided, cullBroken >>

ParallelNext ==
    \/ FirstStep
    \/ TasksDone
    \/ OtherStep
    \/ OtherDone

ParallelSpec == ParallelInit /\ [][ParallelNext]_vars

\* ---------------------------------------------------------------------------
\* Properties of the construction.
\* ---------------------------------------------------------------------------

\* The build has returned and every loop in it, nested builds included, ran
\* to an empty queue.
Finished == pc = "done" /\ ~diverged

\* C1: the task loop of the build terminates for every scene.  Every turn of
\* the loop dispatches one task, and while the loop runs a turn is possible (a
\* task is popped or the empty queue ends the loop); the loop never comes to
\* the last turn the model allows, and no nested build that AddArc starts runs
\* out of turns either.  So the queue empties after finitely many turns.
C1_Terminates ==
    /\ ~diverged
    /\ pc = "loop" => Len(dispatched) < MaxSteps
    /\ pc = "loop" /\ tasks = << >> => PopTaskResult(TopIndexer).type = "None"

\* A finished build that propagated a specializes arc to the root.
C1_Witness ==
    /\ Finished
    /\ \E i \in 1..Len(dispatched) : dispatched[i].type = "EvalImpliedSpecializes"
    /\ \E n \in 1..Len(graph) : /\ graph[n].arcType = "Specialize"
                                /\ graph[n].origin # graph[n].parent

\* The node reached from n by following k parent links, NoNode once the chain
\* has left the graph.
RECURSIVE ParentChain(_, _, _)
ParentChain(g, n, k) ==
    IF k = 0 \/ n = NoNode THEN n ELSE ParentChain(g, g[n].parent, k - 1)

\* C2: in every state of the construction and in the final graph, following
\* the parent links from any node arrives at the root node after fewer steps
\* than the graph has nodes, and the root has no parent: no node is its own
\* ancestor.
C2_ParentChainReachesRoot ==
    /\ graph[RootIdx].parent = NoNode
    /\ \A n \in 1..Len(graph) :
           /\ \E k \in 0..(Len(graph) - 1) : ParentChain(graph, n, k) = RootIdx
           /\ \A k \in 1..Len(graph) : ParentChain(graph, n, k) # n

\* A graph under construction whose deepest node lies three arcs below the
\* root, with tasks still pending.
C2_Witness ==
    /\ pc = "loop" /\ tasks # << >>
    /\ \E n \in 1..Len(graph) :
           /\ ParentChain(graph, n, 3) = RootIdx
           /\ ParentChain(graph, n, 2) # RootIdx

\* The number of errors of one type in a list of errors.
CountErrors(errs, type) ==
    Cardinality({i \in 1..Len(errs) : errs[i].type = type})

\* The references authored on the indexed prim, in the root layer stack, whose
\* target in the same layer stack is the prim itself or a namespace descendant.
SelfReferences ==
    LET refs == PcpComposeSiteReferences(CacheLayerStack(inputs), inputs.path)
    IN  {i \in 1..Len(refs) : /\ refs[i].asset = ""
                              /\ HasPrefix(refs[i].prim, inputs.path)}

HasReferenceNodeAt(g, site) ==
    \E n \in 1..Len(g) : g[n].arcType = "Reference" /\ NodeSite(g, n) = site

\* C3: when the indexed prim P authors a reference to P itself or to a
\* namespace descendant of P in the same layer stack, the graph never holds a
\* Reference node at the target site, and the finished index has recorded
\* exactly one ArcCycle error.
C3_SelfReferenceRejected ==
    \A i \in SelfReferences :
        LET target == PcpComposeSiteReferences(CacheLayerStack(inputs),
                                               inputs.path)[i].prim
        IN  /\ ~HasReferenceNodeAt(graph,
                                   MkSite(CacheLayerStack(inputs), target))
            /\ pc = "done" => /\ CountErrors(errors, "ArcCycle") = 1
                              /\ CountErrors(allErrors, "ArcCycle") = 1

\* The finished index of a prim that references its own child: the cycle was
\* reported and the graph holds only the root node.
C3_Witness ==
    /\ Finished
    /\ \E i \in SelfReferences :
          PcpComposeSiteReferences(CacheLayerStack(inputs),
                                   inputs.path)[i].prim # inputs.path
    /\ CountErrors(errors, "ArcCycle") = 1
    /\ Len(graph) = 1

\* C4: every call of _AddArc that finds a cycle returns no node, records
\* exactly one error, an ArcCycle error for the site of the arc, and leaves the
\* nodes of the graph with all their flags and the pending tasks as they were
\* before the call.
C4_CycleLeavesGraphAndQueue ==
    \A i \in 1..Len(calls) :
        calls[i].cycle =>
            /\ calls[i].ret = NoNode
            /\ calls[i].unchanged
            /\ calls[i].newErrors = << MkError("ArcCycle", calls[i].site) >>

\* The step just taken called _AddArc for a Reference arc that closes a cycle.
C4_Witness ==
    /\ pc = "loop"
    /\ \E i \in 1..Len(calls) : /\ calls[i].cycle
                                /\ calls[i].arcType = "Reference"
                                /\ calls[i].ret = NoNode

\* The sites of a graph, strongest first.
SiteSequence(g) ==
    [i \in 1..Len(StrengthOrder(g)) |-> NodeSite(g, StrengthOrder(g)[i])]

\* A second run of the task loop from the indexer ix: the tasks it dispatches,
\* in order, after those in acc.
RECURSIVE TaskSequence(_, _, _)
TaskSequence(ix, acc, fuel) ==
    CASE ix.tasks = << >> -> acc
      [] fuel = 0 -> acc
      [] OTHER -> TaskSequence(Call("DispatchTask",
                                    << PopTask(ix), PopTaskResult(ix) >>),
                               Append(acc, PopTaskResult(ix)), fuel - 1)

\* The indexer at the start of the task loop of a run on the given inputs.
StartOfRun(inp) ==
    Call("InitialIndexer", << MkSite(CacheLayerStack(inp), inp.path),
                              MkSite(CacheLayerStack(inp), inp.path),
                              0, TRUE, TRUE, TRUE, << >>, inp >>)

StrengthIndex(g, n) == SeqIndexOf(StrengthOrder(g), n)

\* A node reached from the root through a Specialize arc.
IsSpecializeDerived(g, n) ==
    \E m \in {n} \cup AncestorsOf(g, n) : g[m].arcType = "Specialize"

\* C6: in the strength order of a finished top-level index, every node of a
\* sub-tree that hangs from the root by a Specialize arc comes after every
\* node of a sub-tree that hangs from the root by a Reference arc; and every
\* node that contributes specs and is reached through a Specialize arc comes
\* after every contributing node that is not.
C6_SpecializeAfterReference ==
    pc = "done" =>
        /\ \A r, s \in ChildSet(graph, RootIdx) :
               graph[r].arcType = "Reference" /\ graph[s].arcType = "Specialize"
                   => \A x \in SubtreeSet(graph, r), y \in SubtreeSet(graph, s) :
                          StrengthIndex(graph, x) < StrengthIndex(graph, y)
        /\ \A x, y \in 1..Len(graph) :
               /\ CanContributeSpecs(graph, x)
               /\ CanContributeSpecs(graph, y)
               /\ ~IsSpecializeDerived(graph, x)
               /\ IsSpecializeDerived(graph, y)
               => StrengthIndex(graph, x) < StrengthIndex(graph, y)

\* The finished index of a prim with a Reference arc and a Specialize arc,
\* where the referenced prim specializes and references in turn: the root has
\* a Reference child with a Reference child of its own and Specialize children,
\* one of them propagated from beneath the reference.
C6_Witness ==
    /\ Finished
    /\ \E r, s, t, u \in 1..Len(graph) :
           /\ graph[r].arcType = "Reference" /\ graph[r].parent = RootIdx
           /\ graph[u].arcType = "Reference" /\ graph[u].parent = r
           /\ graph[s].arcType = "Specialize" /\ graph[s].parent = RootIdx
           /\ graph[s].origin = RootIdx
           /\ graph[t].arcType = "Specialize" /\ graph[t].parent = RootIdx
           /\ graph[t].origin # RootIdx

\* A spec that authors no arcs besides the given references and inherits.
AuthorsOnly(ls, path, refs, inherits) ==
    LET s == SpecAt(ls, path)
    IN  /\ s.refs = refs /\ s.inherits = inherits
        /\ s.payloads = << >> /\ s.specializes = << >> /\ s.vsets = << >>

\* The indexed root prim S authors one reference, to a root prim T of another
\* layer stack, T authors one inherit, of a root class C, and nothing else
\* is authored on S, on T or on C.
ReferencesAnInheritor(S, T, C) ==
    /\ S = MkSite(CacheLayerStack(inputs), inputs.path)
    /\ IsRootPrimPath(S.path) /\ IsRootPrimPath(T.path) /\ IsRootPrimPath(C)
    /\ T.ls # S.ls
    /\ AuthorsOnly(S.ls, S.path, << Arc(T.ls.name, T.path) >>, << >>)
    /\ AuthorsOnly(T.ls, T.path, << >>, << C >>)
    /\ AuthorsOnly(T.ls, C, << >>, << >>)
    /\ AuthorsOnly(S.ls, C, << >>, << >>)

\* The sites the scene of the inputs can name.
SceneSites ==
    {MkSite(LayerStack(inputs.case, s.ls), s.path) : s \in Scene(inputs).specs}

\* C7: when the root site S references a root prim T and T inherits the class
\* C, then once the queue has drained the root node has two children: a
\* Reference node at T, which has an Inherit child at C in the layer stack of
\* T, and an Inherit node at C in the layer stack of S whose origin is that
\* Inherit child.
C7_ImpliedInherit ==
    pc = "loop" /\ tasks = << >> =>
        \A T \in SceneSites : \A C \in {s.path : s \in SceneSites} :
            ReferencesAnInheritor(NodeSite(graph, RootIdx), T, C) =>
                \E r, i, j \in 1..Len(graph) :
                    /\ ChildSet(graph, RootIdx) = {r, j}
                    /\ r # j
                    /\ graph[r].arcType = "Reference"
                    /\ NodeSite(graph, r) = T
                    /\ graph[i].arcType = "Inherit"
                    /\ graph[i].parent = r
                    /\ NodeSite(graph, i) = MkSite(T.ls, C)
                    /\ graph[j].arcType = "Inherit"
                    /\ NodeSite(graph, j) = MkSite(graph[RootIdx].ls, C)
                    /\ graph[j].origin = i

\* The queue has drained in the build of a prim that references an inheritor,
\* and the graph has its four nodes.
C7_Witness ==
    /\ pc = "loop" /\ tasks = << >> /\ ~diverged
    /\ \E T \in SceneSites : \E C \in {s.path : s \in SceneSites} :
           ReferencesAnInheritor(NodeSite(graph, RootIdx), T, C)
    /\ Len(graph) = 4

\* The first name among the preferences listed for vset in the variant
\* fallbacks of the scene that is one of the options, "" when there is none.
FirstFallbackAmongOptions(vset, options) ==
    LET fb == Scene(inputs).fallbacks
        prefs == IF \E i \in 1..Len(fb) : fb[i][1] = vset
                 THEN fb[CHOOSE i \in 1..Len(fb) : fb[i][1] = vset][2]
                 ELSE << >>
        good == {k \in 1..Len(prefs) : prefs[k] \in options}
    IN  IF good = {} THEN ""
        ELSE prefs[CHOOSE k \in good : \A m \in good : k <= m]

\* No site of the graph authors a selection for vset.
NoAuthoredSelection(g, vset) ==
    \A n \in 1..Len(g) :
        PcpComposeSiteVariantSelection(g[n].ls, g[n].path, vset) = ""

HasVariantNodeAt(g, site) ==
    \E n \in 1..Len(g) : g[n].arcType = "Variant" /\ NodeSite(g, n) = site

\* C8: in the finished graph, for every node that contributes specs and has a
\* variant set v for which no site of the graph authors a selection, if s is
\* the first of the fallbacks listed for v that is an option of v at the node,
\* there is a Variant node at the node's path with {v=s} appended, in the
\* node's layer stack.
C8_VariantFallback ==
    pc = "done" =>
        \A n \in 1..Len(graph) :
            CanContributeSpecs(graph, n) =>
                LET vsets == PcpComposeSiteVariantSets(graph[n].ls,
                                                       graph[n].path)
                IN  \A k \in 1..Len(vsets) :
                        LET s == FirstFallbackAmongOptions(
                                     vsets[k],
                                     PcpComposeSiteVariantSetOptions(
                                         graph[n].ls, graph[n].path, vsets[k]))
                        IN  NoAuthoredSelection(graph, vsets[k]) /\ s # ""
                            => HasVariantNodeAt(
                                   graph,
                                   MkSite(graph[n].ls,
                                          AppendVariantSelection(
                                              graph[n].path, vsets[k], s)))

\* A finished graph whose root has a variant set without an authored
\* selection, for which the second of the listed fallbacks is the first that
\* is an option, and the Variant node of that fallback.
C8_Witness ==
    /\ Finished
    /\ \E i \in 1..Len(dispatched) :
           dispatched[i].type = "EvalNodeVariantFallback"
    /\ \E v \in {"v"} :
           /\ PcpComposeSiteVariantSets(graph[RootIdx].ls, graph[RootIdx].path)
                  = << v >>
           /\ NoAuthoredSelection(graph, v)
           /\ HasVariantNodeAt(
                  graph,
                  MkSite(graph[RootIdx].ls,
                         AppendVariantSelection(graph[RootIdx].path, v, "y")))

\* The node of the task dispatched by the step just taken, NoNode when the
\* step dispatched no task of the given type.
DispatchedNode(type) ==
    IF /\ Len(dispatched') = Len(dispatched) + 1
       /\ dispatched'[Len(dispatched')].type = type
    THEN dispatched'[Len(dispatched')].node
    ELSE NoNode

\* The sources whose incremental relocation target is the path of node n.
RelocationSourcesOf(g, n) ==
    {r[1] : r \in {q \in IncrementalRelocatesSourceToTarget(g[n].ls) :
                       q[2] = g[n].path}}

\* Node k of g is elided: culled when the build culls, inert otherwise.
IsElided(g, k) == IF inputs.cull THEN g[k].culled ELSE g[k].inert

\* What EvalNodeRelocations has done for node n between the graphs g and h:
\* a new Relocate child at the relocation source, every sub-tree beneath a
\* child by another arc than Variant elided, the sub-trees beneath Variant
\* children as they were.
RelocationApplied(g, h, n) ==
    /\ \E m \in (Len(g) + 1)..Len(h) :
           /\ h[m].parent = n
           /\ h[m].arcType = "Relocate"
           /\ h[m].ls = g[n].ls
           /\ h[m].path \in RelocationSourcesOf(g, n)
    /\ \A c \in ChildSet(g, n) :
           IF g[c].arcType = "Variant"
           THEN \A k \in SubtreeSet(g, c) : h[k] = g[k]
           ELSE \A k \in SubtreeSet(g, c) : IsElided(h, k)

\* The statement as it stands: every EvalNodeRelocations step on a node whose
\* path is a relocation target adds the Relocate child and elides.
C9_AsStated ==
    [][LET n == DispatchedNode("EvalNodeRelocations")
       IN  n # NoNode /\ RelocationSourcesOf(graph, n) # {}
               => RelocationApplied(graph, graph', n)]_vars

\* C9: an EvalNodeRelocations step on a node whose path is a relocation target
\* in the incremental table, and which can contribute specs or lies below the
\* namespace depth of its introduction, adds a Relocate child at the
\* relocation source in the same layer stack and elides the sub-tree of each
\* child that was there by a Reference, Payload, Inherit, Specialize or
\* Relocate arc, leaving the sub-trees of Variant children as they were.  On
\* a node that cannot contribute specs and lies at the depth of its
\* introduction the step changes nothing.
C9_RelocationElision ==
    [][LET n == DispatchedNode("EvalNodeRelocations")
       IN  n # NoNode /\ RelocationSourcesOf(graph, n) # {}
               => IF \/ CanContributeSpecs(graph, n)
                     \/ GetDepthBelowIntroduction(graph, n) # 0
                  THEN RelocationApplied(graph, graph', n)
                  ELSE graph' = graph /\ tasks' = PopTask(TopIndexer).tasks]_vars

\* After an EvalNodeRelocations step the graph holds a Relocate node beneath a
\* node that also has an elided Reference child and an un-elided Variant
\* child.
C9_Witness ==
    /\ dispatched # << >>
    /\ dispatched[Len(dispatched)].type = "EvalNodeRelocations"
    /\ \E n, m, c, v \in 1..Len(graph) :
           /\ n = dispatched[Len(dispatched)].node
           /\ graph[m].parent = n /\ graph[m].arcType = "Relocate"
           /\ graph[c].parent = n /\ graph[c].arcType = "Reference"
           /\ IsElided(graph, c)
           /\ graph[v].parent = n /\ graph[v].arcType = "Variant"
           /\ ~IsElided(graph, v)

\* ---------------------------------------------------------------------------
\* Prim child names of a finished index.
\* ---------------------------------------------------------------------------

\* The names of a set, in their sorted order.
RECURSIVE SortedNames(_)
SortedNames(S) ==
    IF S = {} THEN << >>
    ELSE LET x == CHOOSE y \in S : TRUE
         IN  << x >> \o SortedNames(S \ {x})

NoChildNames == [order |-> << >>, set |-> {}, prohibited |-> {}]

\* The pass over the name order that applies the renames and removals of one
\* layer stack, building the names to retain.
RECURSIVE RetainNames(_, _, _, _, _, _)
RetainNames(order, i, nameSet, retained, namesToReplace, namesToRemove) ==
    IF i > Len(order) THEN [order |-> retained, set |-> nameSet]
    ELSE LET name == order[i]
             hit == {r \in namesToReplace : r[1] = name}
             newName == (CHOOSE r \in hit : TRUE)[2]
         IN  IF hit # {}
             THEN RetainNames(order, i + 1,
                              (nameSet \ {name}) \cup {newName},
                              IF newName \in nameSet \ {name} THEN retained
                              ELSE Append(retained, newName),
                              namesToReplace, namesToRemove)
             ELSE IF name \notin namesToRemove
             THEN RetainNames(order, i + 1, nameSet, Append(retained, name),
                              namesToReplace, namesToRemove)
             ELSE RetainNames(order, i + 1, nameSet \ {name}, retained,
                              namesToReplace, namesToRemove)

\* Append the names of S that the set does not hold yet.
AppendNewNames(st, S) ==
    [st EXCEPT !.order = @ \o SortedNames(S \ st.set), !.set = @ \cup S]

_ComposePrimChildNamesAtNode(g, node, usd, st) ==
    LET path == g[node].path
        relocs == IncrementalRelocatesSourceToTarget(g[node].ls)
        fromHere == {r \in relocs : /\ Len(r[1]) > 0
                                    /\ GetParentPath(r[1]) = path}
        namesToReplace ==
            {<< GetNameToken(r[1]), GetNameToken(r[2]) >> :
                 r \in {q \in fromHere : GetParentPath(q[2]) = path}}
        namesToRemove ==
            {GetNameToken(r[1]) :
                 r \in {q \in fromHere : GetParentPath(q[2]) # path}}
        namesToAdd ==
            {GetNameToken(r[2]) :
                 r \in {q \in relocs : /\ Len(q[2]) > 0
                                       /\ GetParentPath(q[2]) = path
                                       /\ GetParentPath(q[1]) # path
                                       /\ GetNameToken(q[2]) \notin st.set}}
        retained == IF namesToReplace = {} /\ namesToRemove = {}
                    THEN [order |-> st.order, set |-> st.set]
                    ELSE RetainNames(st.order, 1, st.set, << >>,
                                     namesToReplace, namesToRemove)
        relocated ==
            IF usd THEN st
            ELSE [order |-> retained.order \o SortedNames(namesToAdd),
                  set |-> retained.set \cup namesToAdd,
                  prohibited |-> st.prohibited
                                     \cup {GetNameToken(r[1]) : r \in fromHere}]
    IN  IF CanContributeSpecs(g, node)
        THEN AppendNewNames(relocated,
                            PcpComposeSiteChildNames(g[node].ls, path))
        ELSE relocated

\* The nodes are visited from the weakest to the strongest; a culled node
\* hides its whole sub-tree.
RECURSIVE _ComposePrimChildNames(_, _, _, _)
RECURSIVE ComposeChildNamesAmong(_, _, _, _, _)
_ComposePrimChildNames(g, node, usd, st) ==
    IF g[node].culled THEN st
    ELSE _ComposePrimChildNamesAtNode(
             g, node, usd,
             ComposeChildNamesAmong(g, Children(g, node),
                                    Len(Children(g, node)), usd, st))

ComposeChildNamesAmong(g, cs, i, usd, st) ==
    IF i = 0 THEN st
    ELSE ComposeChildNamesAmong(g, cs, i - 1, usd,
                                _ComposePrimChildNames(g, cs[i], usd, st))

\* PcpPrimIndex::ComputePrimChildNames for an index that is not instanceable:
\* the name order without the prohibited names, and the prohibited names.
ComputePrimChildNames(g, usd) ==
    LET st == _ComposePrimChildNames(g, RootIdx, usd, NoChildNames)
    IN  [nameOrder |-> SelectSeq(st.order, LAMBDA n : n \notin st.prohibited),
         prohibitedNameSet |-> st.prohibited]

\* The sites of the nodes of a graph.
SiteSet(g) == {NodeSite(g, n) : n \in 1..Len(g)}

\* The composed prim child names of a graph, as a set.
ChildNameSet(g) ==
    LET names == ComputePrimChildNames(g, Scene(inputs).usd).nameOrder
    IN  {names[i] : i \in 1..Len(names)}

\* The finished graph of the build for the same scene and path without
\* culling.
UnculledGraph ==
    Call("PcpComputePrimIndex", << inputs.path, [inputs EXCEPT !.cull = FALSE] >>).g

\* C10: for every scene and path, the sites of the index built with culling
\* are among the sites of the index built without culling, and both indexes
\* compose the same set of prim child names.
C10_CullingSafe ==
    pc = "done" /\ inputs.cull =>
        /\ SiteSet(graph) \subseteq SiteSet(UnculledGraph)
        /\ ChildNameSet(graph) = ChildNameSet(UnculledGraph)

\* The payloads of the scene are chosen by the include set, there is no
\* predicate, and the path of the root site is not in the set.
ExcludedByTheIncludeSet ==
    /\ Scene(inputs).payloadMode = "set"
    /\ inputs.path \notin Scene(inputs).includedPayloads

HasPayloadNode(g) == \E n \in 1..Len(g) : g[n].arcType = "Payload"

\* The step just taken evaluated the payloads of node n, which contributes
\* specs and authors a payload.
PayloadEvaluated(n) ==
    /\ n # NoNode
    /\ CanContributeSpecs(graph, n)
    /\ PcpComposeSitePayloads(graph[n].ls, graph[n].path) # << >>

\* The statement as it stands: when the include set leaves out the path of the
\* root site, the graph never holds a Payload node, and once a payload has been
\* found the payload state is ExcludedByIncludeSet.
C11_AsStated ==
    ExcludedByTheIncludeSet =>
        /\ ~HasPayloadNode(graph)
        /\ hasPayloads => payloadState = "ExcludedByIncludeSet"

\* C11: when the task loop of the outermost build evaluates the payloads of a
\* node that contributes specs and authors a payload, the has-payloads bit is
\* set afterwards; and when the include set decides and leaves out the path of
\* the root site, the step adds no node and leaves the payload state
\* ExcludedByIncludeSet.  Payload arcs are then added only inside recursive
\* builds, where the payload of an ancestor of a sub-root reference target is
\* composed without asking the include set.
C11_PayloadExcluded ==
    [][/\ LET n == DispatchedNode("EvalNodePayload")
          IN  PayloadEvaluated(n) =>
                  /\ hasPayloads'
                  /\ ExcludedByTheIncludeSet =>
                         /\ graph' = graph
                         /\ payloadState' = "ExcludedByIncludeSet"
       /\ ExcludedByTheIncludeSet =>
              \A i \in 1..Len(calls') :
                  calls'[i].arcType = "Payload" => calls'[i].frames > 0]_vars

\* The build of a prim with a payload that the include set leaves out has
\* finished: the bit is set, the state says excluded, and the graph has only
\* its root node.
C11_Witness ==
    /\ Finished
    /\ ExcludedByTheIncludeSet
    /\ \E i \in 1..Len(dispatched) :
           /\ dispatched[i].type = "EvalNodePayload"
           /\ dispatched[i].node = RootIdx
    /\ PcpComposeSitePayloads(graph[RootIdx].ls, graph[RootIdx].path) # << >>
    /\ hasPayloads
    /\ payloadState = "ExcludedByIncludeSet"
    /\ Len(graph) = 1

\* The tasks of a task vector, as a set.
TaskSet(q) == {q[i] : i \in 1..Len(q)}

\* Task u is task t, or what RetryVariantTasks makes of t.
SameTaskOrRetried(t, u) ==
    /\ u.node = t.node /\ u.vsetName = t.vsetName /\ u.vsetNum = t.vsetNum
    /\ \/ u.type = t.type
       \/ /\ t.type \in {"EvalNodeVariantFallback", "EvalNodeVariantNoneFound"}
          /\ u.type = "EvalNodeVariantAuthored"

\* The errors the step just taken has added to the local error list.
NewErrors == SubSeq(errors', Len(errors) + 1, Len(errors'))

\* The errors for which the reference evaluator skips an authored arc.
SkippedArcErrors == {"InvalidPrimPath", "MutedAssetPath", "InvalidAssetPath"}

\* The calls of _AddArc the step just taken made in the outermost build for
\* arcs of the given type from node n.
ArcCallsFrom(n, arcType) ==
    {i \in 1..Len(calls') : /\ calls'[i].frames = 0
                            /\ calls'[i].parent = n
                            /\ calls'[i].arcType = arcType}

\* C12: a composition error never ends the construction.  A step of the task
\* loop, whether or not it records errors, takes from the queue only the task
\* it dispatches: every other pending task is still pending afterwards (as
\* itself, or retried as an authored-variant task); the build returns only
\* from an empty queue; and the reference evaluator handles every authored
\* arc of its node, by a call of _AddArc or by an error for that arc, whatever
\* happened to the arcs before it.
C12_BuildContinues ==
    [][/\ Len(dispatched') = Len(dispatched) + 1 =>
              \A t \in TaskSet(PopTask(TopIndexer).tasks) :
                  \E u \in TaskSet(tasks') : SameTaskOrRetried(t, u)
       /\ pc' = "done" => tasks = << >> /\ tasks' = << >>
       /\ LET n == DispatchedNode("EvalNodeReferences")
          IN  n # NoNode /\ CanContributeSpecs(graph, n) =>
                  Len(PcpComposeSiteReferences(graph[n].ls, graph[n].path))
                      = Cardinality(ArcCallsFrom(n, "Reference"))
                        + Cardinality({i \in 1..Len(NewErrors) :
                                          NewErrors[i].type
                                              \in SkippedArcErrors})]_vars

\* A finished build in which the first reference of the root node was
\* refused as a cycle and the second was added, and in which tasks were
\* dispatched after the error.
C12_Witness ==
    /\ Finished
    /\ Len(PcpComposeSiteReferences(graph[RootIdx].ls, graph[RootIdx].path)) = 2
    /\ CountErrors(errors, "ArcCycle") = 1
    /\ \E n \in 1..Len(graph) : /\ graph[n].arcType = "Reference"
                                /\ graph[n].parent = RootIdx
    /\ \E i, j \in 1..Len(dispatched) :
           /\ i < j
           /\ dispatched[i].type = "EvalNodeReferences"
           /\ dispatched[i].node = RootIdx
           /\ dispatched[j].node # RootIdx

\* The errors of a list, as a set.
ErrorSet(errs) == {errs[i] : i \in 1..Len(errs)}

\* How often error e occurs in a list.
Occurrences(errs, e) == Cardinality({i \in 1..Len(errs) : errs[i] = e})

\* The statement as it stands: the errors that the _AddArc calls of a step
\* recorded, calls inside recursive builds included, are in the local error
\* list of the index being built and in allErrors.
C13_AsStated ==
    \A i \in 1..Len(calls) :
        /\ ErrorSet(calls[i].newErrors) \subseteq ErrorSet(errors)
        /\ ErrorSet(calls[i].newErrors) \subseteq ErrorSet(allErrors)

\* Call i of the step ran inside a recursive build whose graph the _AddArc
\* that started it could not insert: Append returned without its errors.
BuildDiscarded(i) ==
    \E j \in 1..Len(calls) :
        /\ j - calls[j].nested <= i /\ i < j
        /\ calls[j].ret = NoNode

\* C13: every error in the local error list of the index is in allErrors as
\* often; every error recorded by an _AddArc call, at whatever depth of
\* recursive builds, is in allErrors unless the build it ran in was
\* discarded; and those recorded by calls of the outermost build are in the
\* local error list too.
C13_ErrorsRecorded ==
    /\ \A e \in ErrorSet(errors) :
           Occurrences(errors, e) <= Occurrences(allErrors, e)
    /\ \A i \in 1..Len(calls) :
           /\ ~BuildDiscarded(i) =>
                  ErrorSet(calls[i].newErrors) \subseteq ErrorSet(allErrors)
           /\ calls[i].frames = 0 =>
                  ErrorSet(calls[i].newErrors) \subseteq ErrorSet(errors)

\* The step just taken brought in an error that an _AddArc call recorded
\* inside a recursive build: it is in allErrors and not in the local list.
C13_Witness ==
    \E i \in 1..Len(calls) :
        /\ calls[i].frames > 0
        /\ \E e \in ErrorSet(calls[i].newErrors) :
               e \in ErrorSet(allErrors) /\ e \notin ErrorSet(errors)

\* C14: allErrors holds at most one error of each capacity category.
C14_CapacityErrorsOnce ==
    \A type \in CapacityErrorTypes : CountErrors(allErrors, type) <= 1

\* The task types from the highest priority to the lowest.
TypesByPriority ==
    << "EvalNodeRelocations", "EvalImpliedRelocations", "EvalNodeReferences",
       "EvalNodePayload", "EvalNodeInherits", "EvalImpliedClasses",
       "EvalNodeSpecializes", "EvalImpliedSpecializes", "EvalNodeVariantSets",
       "EvalNodeVariantAuthored", "EvalNodeVariantFallback",
       "EvalNodeVariantNoneFound" >>

TypeRank(type) == SeqIndexOf(TypesByPriority, type)

PendingTypes(q) == {q[i].type : i \in 1..Len(q)}

LastDispatched == dispatched[Len(dispatched)]

ImpliedTasksIn(q) == {i \in 1..Len(q) : _IsImpliedTaskType(q[i].type)}

\* C16: the queue holds no two implied-classes or implied-specializes tasks
\* for one node, and taskUniq holds just the pending ones; AddTask of a
\* pending one leaves the queue as it is; and when PopTask has returned such
\* a task, AddTask enqueues it again.
C16_ImpliedTasksUnique ==
    /\ \A i, j \in ImpliedTasksIn(tasks) :
           tasks[i].type = tasks[j].type /\ tasks[i].node = tasks[j].node
               => i = j
    /\ taskUniq = {tasks[i] : i \in ImpliedTasksIn(tasks)}
    /\ \A i \in ImpliedTasksIn(tasks) :
           AddTask(TopIndexer, tasks[i]).tasks = tasks
    /\ LET task == PopTaskResult(TopIndexer)
           again == AddTask(PopTask(TopIndexer), task)
       IN  _IsImpliedTaskType(task.type) =>
               /\ task \notin TaskSet(PopTask(TopIndexer).tasks)
               /\ Len(again.tasks) = Len(tasks)
               /\ task \in TaskSet(again.tasks)

\* An implied task that has been dispatched before is pending again.
C16_Witness ==
    \E i \in ImpliedTasksIn(tasks) :
        \E k \in 1..Len(dispatched) : dispatched[k] = tasks[i]

RetriedTypes == {"EvalNodeVariantFallback", "EvalNodeVariantNoneFound"}

\* What RetryVariantTasks is to make of a task.
Promoted(t) ==
    IF t.type \in RetriedTypes THEN [t EXCEPT !.type = "EvalNodeVariantAuthored"]
    ELSE t

\* The queue RetryVariantTasks leaves when called on the pending queue.
RetriedQueue == RetryVariantTasks(TopIndexer).tasks

\* C17: RetryVariantTasks, called on the pending queue, leaves the tasks it
\* found with every fallback and none-found task turned into the
\* authored-variant task for the same node and variant set, every other task
\* as it was and as often, and no fallback or none-found task pending.
C17_RetryPromotesAll ==
    /\ Len(RetriedQueue) = Len(tasks)
    /\ \A t \in TaskSet(RetriedQueue) \cup {Promoted(u) : u \in TaskSet(tasks)} :
           Cardinality({i \in 1..Len(RetriedQueue) : RetriedQueue[i] = t})
               = Cardinality({i \in 1..Len(tasks) : Promoted(tasks[i]) = t})
    /\ PendingTypes(RetriedQueue) \cap RetriedTypes = {}

\* A variant task has been dispatched as an authored one for the second
\* time: it had been left as a fallback task and retried.  Fallback or
\* none-found tasks are pending beside other tasks.
C17_Witness ==
    /\ \E i, j \in 1..Len(dispatched) :
           /\ i < j
           /\ dispatched[i] = dispatched[j]
           /\ dispatched[i].type = "EvalNodeVariantAuthored"
    /\ PendingTypes(tasks) \cap RetriedTypes # {}
    /\ PendingTypes(tasks) \ RetriedTypes # {}

\* The max-heap property of a task vector under Task::PriorityOrder: no
\* element has higher priority than its heap parent.
IsHeap(g, q) ==
    \A i \in 2..Len(q) : ~PriorityOrder(g, q[i \div 2], q[i])

\* C19: the pending queue is a heap; the queue RetryVariantTasks leaves when
\* called on it is a heap; and the task PopTask then returns has no task of
\* higher priority left behind.
C19_RetryKeepsHeap ==
    /\ IsHeap(graph, tasks)
    /\ IsHeap(graph, RetriedQueue)
    /\ LET retried == RetryVariantTasks(TopIndexer)
       IN  \A u \in TaskSet(PopTask(retried).tasks) :
               ~PriorityOrder(graph, PopTaskResult(retried), u)

\* Two or more tasks of the pending queue are retried, one of them away from
\* the end of the vector, and the types changed in place alone would not
\* leave a heap.
C19_Witness ==
    /\ Cardinality({i \in 1..Len(tasks) : tasks[i].type \in RetriedTypes}) >= 2
    /\ \E i \in 1..(Len(tasks) - 1) : tasks[i].type \in RetriedTypes
    /\ ~IsHeap(graph, [i \in 1..Len(tasks) |-> Promoted(tasks[i])])

\* The outputs of PcpComputePrimIndex called alone on the given inputs.
ComputedAlone(inp) == Call("PcpComputePrimIndex", << inp.path, inp >>)

Unplaced(node) == [node EXCEPT !.parent = NoNode, !.origin = NoNode]

\* C20: while the index is built no node that _EvalNodeRelocations has
\* elided can contribute specs, and every node that can contribute specs
\* in the finished index is one that could and was not elided when the
\* queue ran empty.
C20_ElidedStaysElided ==
    pc = "loop" =>
        /\ \A k \in elided : ~CanContributeSpecs(graph, k)
        /\ tasks = << >> =>
               LET final == FinishPrimIndex(TopIndexer).g
               IN  \A k \in 1..Len(final) :
                       CanContributeSpecs(final, k) =>
                           \E j \in (1..Len(graph)) \ elided :
                               /\ CanContributeSpecs(graph, j)
                               /\ Unplaced(graph[j]) = Unplaced(final[k])

(***************************************************************************)
(* C21.  Culled sub-trees.                                                 *)
(***************************************************************************)
\* The _AddArc calls of the last step that added a node and left it unculled.
UnculledAdditions ==
    {i \in 1..Len(calls) : calls[i].ret # NoNode /\ ~calls[i].retCulled}

\* C21: with culling enabled, whenever a task is about to be popped, by the
\* outermost build or by a nested one, every culled node has only culled
\* children, and when _AddArc has added a node
\* that it did not cull, no ancestor of that node is culled as _AddArc
\* returns.
C21_CulledSubtrees ==
    inputs.cull =>
        /\ pc = "loop" => CulledAboveUnculled(graph) = {}
        /\ ~cullBroken
        /\ \A i \in UnculledAdditions : calls[i].culledAbove = {}

\* An _AddArc has added an unculled node beneath an ancestor that was culled
\* before the call, and the next task is about to be popped.
C21_Witness ==
    /\ inputs.cull
    /\ pc = "loop"
    /\ tasks # << >>
    /\ \E i \in UnculledAdditions : calls[i].unculled # {}

(***************************************************************************)
(* C22.  References and payloads to a layer without a default prim.        *)
(***************************************************************************)
\* The layer stack an authored reference or payload of node n targets.
TargetLayerStack(g, n, arc) ==
    IF arc.asset = "" THEN g[n].ls ELSE LayerStack(g[n].ls.case, arc.asset)

\* The authored arcs of the kind at node n that name no prim and whose
\* target layer declares no default prim.
UnresolvedDefaultArcs(g, n, arcs) ==
    {i \in 1..Len(arcs) :
        /\ IsEmptyPath(arcs[i].prim)
        /\ arcs[i].asset \in AllLayerStacks \cup {""}
        /\ arcs[i].asset \notin Scene(inputs).muted
        /\ IsEmptyPath(GetDefaultPrimPath(TargetLayerStack(g, n, arcs[i])))}

\* The step just taken has recorded UnresolvedPrimPath for node n and the
\* graph has an inert child of n of the arc type at the absolute root of
\* the layer stack.
PlaceholderAdded(n, arcType, ls) ==
    /\ \E k \in 1..Len(NewErrors) :
           NewErrors[k] = MkError("UnresolvedPrimPath", NodeSite(graph, n))
    /\ \E c \in ChildSet(graph', n) :
           /\ graph'[c].arcType = arcType
           /\ NodeSite(graph', c) = MkSite(ls, AbsoluteRootPath)
           /\ graph'[c].inert

\* The placeholders of the authored arcs of one kind at the node whose task
\* of the given type the step has dispatched.
PlaceholdersAdded(taskType, arcType, arcs, composed) ==
    LET n == DispatchedNode(taskType)
    IN  n # NoNode /\ CanContributeSpecs(graph, n) /\ composed =>
            \A i \in UnresolvedDefaultArcs(graph, n, arcs) :
                PlaceholderAdded(n, arcType,
                                 TargetLayerStack(graph, n, arcs[i]))

\* C22: for every authored reference or payload with an empty prim path
\* whose target layer declares no default prim, internal references
\* included, the evaluator records UnresolvedPrimPath and adds an inert node
\* at the absolute root of the target layer stack.
C22_PlaceholderAdded ==
    [][/\ LET n == DispatchedNode("EvalNodeReferences")
          IN  n # NoNode =>
                  PlaceholdersAdded(
                      "EvalNodeReferences", "Reference",
                      PcpComposeSiteReferences(graph[n].ls, graph[n].path),
                      TRUE)
       /\ LET n == DispatchedNode("EvalNodePayload")
          IN  n # NoNode =>
                  PlaceholdersAdded(
                      "EvalNodePayload", "Payload",
                      PcpComposeSitePayloads(graph[n].ls, graph[n].path),
                      payloadState' \in {"IncludedByIncludeSet",
                                         "IncludedByPredicate"})]_vars

(***************************************************************************)
(* C23.  The cycle check of _AddArc.                                       *)
(***************************************************************************)
\* Some site of the chain is in the layer stack of the site and one of the
\* two paths is a prefix of the other.
MeetsChain(sites, site) ==
    \E s \in sites : /\ s.ls = site.ls
                     /\ \/ HasPrefix(s.path, site.path)
                        \/ HasPrefix(site.path, s.path)

\* The path at which the site of a new arc will stand in the graph of the
\* k-th level of the walk: each graph left on the way was requested for one
\* path and is rooted at another.
RECURSIVE PathAtLevel(_, _, _)
PathAtLevel(levels, path, k) ==
    IF k = 1 THEN path
    ELSE LET below == PathAtLevel(levels, path, k - 1)
             left == levels[k - 1]
         IN  IF left.rootPath = below THEN left.requestedPath
             ELSE ReplacePrefix(left.requestedPath, left.rootPath, below)

\* The arc types from the parent of the call upwards, across the frames.
RECURSIVE ArcTypesAcross(_, _)
ArcTypesAcross(levels, k) ==
    IF k > Len(levels) THEN << >>
    ELSE levels[k].arcTypes \o ArcTypesAcross(levels, k + 1)

\* The call adds an implied class arc whose nearest ancestor arc that is not
\* class-based is a Relocate arc.
ImpliedClassUnderRelocate(c) ==
    /\ PcpIsClassBasedArc(c.arcType)
    /\ c.parent # c.origin
    /\ LET types == ArcTypesAcross(c.levels, 1)
           others == {i \in 1..Len(types) : ~PcpIsClassBasedArc(types[i])}
       IN  /\ others # {}
           /\ types[CHOOSE i \in others : \A j \in others : i <= j]
                  = "Relocate"

\* The calls of _AddArc the cycle check is made for.
CheckedCalls ==
    {i \in 1..Len(calls) : /\ calls[i].arcType # "Variant"
                           /\ ~ImpliedClassUnderRelocate(calls[i])}

\* The call was rejected as a cycle: it returned no node and changed nothing
\* but the errors, to which it added ArcCycle.
RejectedAsCycle(c) ==
    /\ c.ret = NoNode
    /\ c.unchanged
    /\ \E k \in 1..Len(c.newErrors) : c.newErrors[k].type = "ArcCycle"

\* C23 as stated: the site of the new arc is compared, with its own path,
\* with the chain of every level.
C23_AsStated ==
    \A i \in CheckedCalls :
        RejectedAsCycle(calls[i])
            <=> \E k \in 1..Len(calls[i].levels) :
                    MeetsChain(calls[i].levels[k].sites, calls[i].site)

\* C23: _AddArc of an arc that is neither a variant arc nor an implied class
\* arc under a Relocate is rejected with ArcCycle exactly when some node on
\* the chain from the parent up to its graph root, continued from the parent
\* node of each enclosing stack frame, is in the layer stack of the child
\* site and has a path that is a prefix of, or has as a prefix, the path the
\* child site will have in that frame's graph.
C23_CycleCheck ==
    \A i \in CheckedCalls :
        RejectedAsCycle(calls[i])
            <=> \E k \in 1..Len(calls[i].levels) :
                    MeetsChain(calls[i].levels[k].sites,
                               MkSite(calls[i].site.ls,
                                      PathAtLevel(calls[i].levels,
                                                  calls[i].site.path, k)))

\* A call within a recursive build was rejected for a node of an enclosing
\* frame, in whose graph the child site has another path, and not for a node
\* of the graph being built.
C23_Witness ==
    \E i \in CheckedCalls :
        /\ Len(calls[i].levels) > 1
        /\ RejectedAsCycle(calls[i])
        /\ ~MeetsChain(calls[i].levels[1].sites, calls[i].site)
        /\ \E k \in 2..Len(calls[i].levels) :
               PathAtLevel(calls[i].levels, calls[i].site.path, k)
                   # calls[i].site.path

(***************************************************************************)
(* C24: Pcp_BuildPrimIndex on a variant-selection path.                    *)
(***************************************************************************)
\* The _AddArc calls of the last step made in a build whose graph has its
\* root at a variant-selection path.
CallsInVariantSiteBuild ==
    {i \in 1..Len(calls) :
        IsPrimVariantSelectionPath(calls[i].levels[1].rootPath)}

\* The site such a build was made for.
BuildSiteOf(c) ==
    CHOOSE s \in c.levels[1].sites : s.path = c.levels[1].rootPath

\* Pcp_BuildPrimIndex for the site, up to the start of its task loop.
VariantSiteStart(site, rootNodeShouldContributeSpecs) ==
    Call("InitialIndexer", << site, site, 1, TRUE, TRUE,
                              rootNodeShouldContributeSpecs, << >>, inputs >>)

\* C24 as stated: in a build for a variant-selection path no arc evaluator
\* runs and no node is added to the one node of the graph.
C24_AsStated ==
    \A i \in CallsInVariantSiteBuild : calls[i].ret = NoNode

\* C24: Pcp_BuildPrimIndex on a variant-selection path starts, without
\* building the index of the namespace parent, from a graph of exactly one
\* node at that site, whose inert flag is the negation of
\* rootNodeShouldContributeSpecs; the tasks of that node are then enqueued and
\* the task loop runs over them as for any other site.
C24_VariantSiteBuild ==
    \A i \in CallsInVariantSiteBuild :
        /\ calls[i].frames > 0
        /\ \A r \in BOOLEAN :
               With(VariantSiteStart(BuildSiteOf(calls[i]), r), LAMBDA ix :
                   /\ Len(ix.g) = 1
                   /\ NodeSite(ix.g, RootIdx) = BuildSiteOf(calls[i])
                   /\ ix.g[RootIdx].inert = ~r
                   /\ ix.calls = << >>
                   /\ r => ix.tasks # << >>)

\* An arc evaluator has run in the build of a variant-selection path and has
\* added a node beneath the root node of its graph.
C24_Witness ==
    \E i \in CallsInVariantSiteBuild :
        /\ calls[i].ret # NoNode
        /\ calls[i].parent = RootIdx
        /\ calls[i].arcType = "Reference"

(***************************************************************************)
(* C25: propagation of the arcs beneath a propagated specializes node back *)
(* to the origin of the node.                                              *)
(***************************************************************************)
\* The children of node n with the site and the arc type of node c of graph h.
ChildrenLike(g, n, h, c) ==
    {d \in ChildSet(g, n) : /\ NodeSite(g, d) = NodeSite(h, c)
                            /\ g[d].arcType = h[c].arcType}

\* The _AddArc calls of the step just taken that added a node beneath node o
\* of the outermost build.
AddedBeneath(o) ==
    {i \in 1..Len(calls') : /\ calls'[i].frames = 0
                            /\ calls'[i].parent = o
                            /\ calls'[i].ret # NoNode}

SpecializesBelowRoot(g) ==
    {n \in 1..Len(g) : /\ PcpIsSpecializeArc(g[n].arcType)
                       /\ g[n].parent # RootIdx}

\* C26: when PcpComputePrimIndex has finished, every Specialize node whose
\* parent is not the root node is inert.
C26_SpecializesInert ==
    pc = "done" => \A n \in SpecializesBelowRoot(graph) : graph[n].inert

\* A finished index has a Specialize node beneath a node other than the root
\* and, for it, a Specialize node of the same site beneath the root that is
\* not inert and has it as origin.
C26_Witness ==
    /\ pc = "done"
    /\ \E n \in SpecializesBelowRoot(graph) :
           /\ graph[n].inert
           /\ \E m \in ChildSet(graph, RootIdx) :
                  /\ PcpIsSpecializeArc(graph[m].arcType)
                  /\ graph[m].origin = n
                  /\ NodeSite(graph, m) = NodeSite(graph, n)
                  /\ ~graph[m].inert

(***************************************************************************)
(* C27: payloads left out by the inclusion policy.                         *)
(***************************************************************************)
\* The inputs leave out the payloads of the root site: there is no include
\* set, or the predicate refuses the path, or the include set has not got it.
ExcludedByPolicy ==
    \/ Scene(inputs).payloadMode \in {"null", "predFalse"}
    \/ ExcludedByTheIncludeSet

\* No _AddArc call of the step just taken, recursive builds left aside, was
\* for a Payload arc.
NoPayloadArcCalled ==
    \A i \in 1..Len(calls') :
        calls'[i].frames = 0 => calls'[i].arcType # "Payload"

\* C27 as stated: a payload left out by the policy leaves the payload state
\* ExcludedByPredicate or ExcludedByIncludeSet.
C27_AsStated ==
    [][LET n == DispatchedNode("EvalNodePayload")
       IN  (PayloadEvaluated(n) /\ ExcludedByPolicy) =>
               /\ graph' = graph
               /\ NoPayloadArcCalled
               /\ payloadState' \in {"ExcludedByPredicate",
                                     "ExcludedByIncludeSet"}]_vars

\* C27: when the task loop evaluates the payloads of a node that contributes
\* specs and authors a payload, and the policy leaves the payload out, no node
\* is added; the payload state becomes ExcludedByPredicate when a predicate
\* decided, ExcludedByIncludeSet when the include set decided, and is left as
\* it was when the inputs have no include set.
C27_PolicyExclusion ==
    [][LET n == DispatchedNode("EvalNodePayload")
           mode == Scene(inputs).payloadMode
       IN  (PayloadEvaluated(n) /\ ExcludedByPolicy) =>
               /\ graph' = graph
               /\ NoPayloadArcCalled
               /\ payloadState' = CASE mode = "predFalse" -> "ExcludedByPredicate"
                                    [] mode = "set" -> "ExcludedByIncludeSet"
                                    [] OTHER -> payloadState]_vars

\* The index of a prim with a payload was built without an include set: the
\* payloads were evaluated, no node was added and the state is NoPayload.
C27_Witness ==
    /\ Finished
    /\ Scene(inputs).payloadMode = "null"
    /\ \E i \in 1..Len(dispatched) :
           /\ dispatched[i].type = "EvalNodePayload"
           /\ dispatched[i].node = RootIdx
    /\ PcpComposeSitePayloads(graph[RootIdx].ls, graph[RootIdx].path) # << >>
    /\ hasPayloads
    /\ payloadState = "NoPayload"
    /\ ~HasPayloadNode(graph)

(***************************************************************************)
(* C28: the old "standin" preferences.                                     *)
(***************************************************************************)
\* The authored-variant task the step just taken dispatched, NoneTask when it
\* dispatched none.
AuthoredVariantTask ==
    IF DispatchedNode("EvalNodeVariantAuthored") = NoNode THEN NoneTask
    ELSE dispatched'[Len(dispatched')]

\* The authored selection the task finds in the graph it is dispatched on,
\* with the node that has it.
SelectionFor(t) ==
    _ComposeVariantSelection(
        TopIndexer, t.node, StripAllVariantSelections(graph[t.node].path),
        t.vsetName)

\* The task is dispatched on a node that contributes specs, with a fallback
\* among the options of the set at the node and a non-empty authored
\* selection.
SelectionAgainstFallback(t) ==
    /\ t.type = "EvalNodeVariantAuthored"
    /\ CanContributeSpecs(graph, t.node)
    /\ FirstFallbackAmongOptions(
           t.vsetName,
           PcpComposeSiteVariantSetOptions(graph[t.node].ls,
                                           graph[t.node].path,
                                           t.vsetName)) # ""
    /\ SelectionFor(t).vsel # ""

\* The step deferred to the fallback: it enqueued the fallback task for the
\* node and the set and called _AddArc for no Variant arc.
DeferredToFallback(t) ==
    /\ [t EXCEPT !.type = "EvalNodeVariantFallback"] \in TaskSet(tasks')
    /\ ArcCallsFrom(t.node, "Variant") = {}

\* The step used the selection: it called _AddArc for the Variant arc of the
\* selection and enqueued no fallback task for the set.
UsedSelection(t, vsel) ==
    /\ \E i \in ArcCallsFrom(t.node, "Variant") :
           calls'[i].site = MkSite(graph[t.node].ls,
                                   AppendVariantSelection(graph[t.node].path,
                                                          t.vsetName, vsel))
    /\ [t EXCEPT !.type = "EvalNodeVariantFallback"] \notin TaskSet(tasks')

\* The old preferences apply to the task.
OldStandin(t) ==
    /\ t.vsetName = "standin"
    /\ ~PcpIsNewDefaultStandinBehaviorEnabled(inputs)

\* The node with the selection is a Payload node or beneath one.
BeneathPayload(sel) ==
    \E n \in {sel.node} \cup AncestorsOf(graph, sel.node) :
        graph[n].arcType = "Payload"

\* A session layer of the root site authors the selection.
AuthoredInSession(t, sel) ==
    << RootLayerStackName, inputs.path, t.vsetName, sel.vsel >>
        \in Scene(inputs).sessionSelections

\* The node with the selection is a Variant node that selects in the set.
IsPriorDecision(t, sel) ==
    /\ graph[sel.node].arcType = "Variant"
    /\ IsPrimVariantSelectionPath(graph[sel.node].path)
    /\ GetVariantSelection(graph[sel.node].path)[1] = t.vsetName

\* C28 as stated: under the old preferences the authored selection gives way
\* to the fallback whenever it comes from beneath a Payload arc or is not
\* authored in a session layer; in every other set it is used.
C28_AsStated ==
    [][LET t == AuthoredVariantTask
           sel == SelectionFor(t)
       IN  SelectionAgainstFallback(t) =>
               IF OldStandin(t)
               THEN (BeneathPayload(sel) \/ ~AuthoredInSession(t, sel))
                        => DeferredToFallback(t)
               ELSE UsedSelection(t, sel.vsel)]_vars

\* C28: under the old preferences EvalNodeVariantAuthored, with a fallback
\* among the options and a non-empty authored selection, defers to the
\* fallback exactly when the selection is not the prior decision of a Variant
\* node for the set and either comes from a Payload node or beneath one, or
\* is neither authored in a session layer of the root site nor found at the
\* root node; otherwise, and for every other set, the selection is used.
C28_StandinFallback ==
    [][LET t == AuthoredVariantTask
           sel == SelectionFor(t)
       IN  SelectionAgainstFallback(t) =>
               IF /\ OldStandin(t)
                  /\ ~IsPriorDecision(t, sel)
                  /\ \/ BeneathPayload(sel)
                     \/ /\ ~AuthoredInSession(t, sel)
                        /\ graph[sel.node].arcType # "Root"
               THEN DeferredToFallback(t)
               ELSE UsedSelection(t, sel.vsel)]_vars

\* Under the old preferences the Variant node of a selection of standin
\* that the root node authors in its root layer is in the finished graph,
\* although a fallback was among the options.
C28_Witness ==
    /\ Finished
    /\ ~PcpIsNewDefaultStandinBehaviorEnabled(inputs)
    /\ ~AuthoredInSession(VariantTask("", RootIdx, "standin", 0),
                          [vsel |-> "preview"])
    /\ PcpComposeSiteVariantSelection(graph[RootIdx].ls, graph[RootIdx].path,
                                      "standin") = "preview"
    /\ FirstFallbackAmongOptions(
           "standin",
           PcpComposeSiteVariantSetOptions(graph[RootIdx].ls,
                                           graph[RootIdx].path, "standin"))
           = "render"
    /\ HasVariantNodeAt(graph,
                        MkSite(graph[RootIdx].ls,
                               AppendVariantSelection(graph[RootIdx].path,
                                                      "standin", "preview")))

(***************************************************************************)
(* C29: variant sets without an authored selection.                        *)
(***************************************************************************)
\* The task of the given type that the step just taken dispatched, NoneTask
\* when it dispatched none.
DispatchedTask(type) ==
    IF DispatchedNode(type) = NoNode THEN NoneTask
    ELSE dispatched'[Len(dispatched')]

\* The fallback among the options of the task's set at the task's node, ""
\* when there is none.
FallbackFor(t) ==
    FirstFallbackAmongOptions(
        t.vsetName,
        PcpComposeSiteVariantSetOptions(graph[t.node].ls, graph[t.node].path,
                                        t.vsetName))

\* The step enqueued the task, added no node and called _AddArc for no
\* Variant arc from the task's node.
EnqueuedOnly(t) ==
    /\ t \in TaskSet(tasks')
    /\ graph' = graph
    /\ ArcCallsFrom(t.node, "Variant") = {}

\* C29: on a node that contributes specs, EvalNodeVariantAuthored that finds
\* no authored selection enqueues EvalNodeVariantFallback for its node, set
\* and set number when a fallback is among the options and
\* EvalNodeVariantNoneFound otherwise, and adds no node;
\* EvalNodeVariantFallback calls _AddArc for the Variant arc of the fallback
\* when one is among the options and otherwise enqueues
\* EvalNodeVariantNoneFound and adds no node.
C29_NoSelectionFound ==
    [][/\ LET t == DispatchedTask("EvalNodeVariantAuthored")
          IN  (/\ t.type # "None"
               /\ CanContributeSpecs(graph, t.node)
               /\ SelectionFor(t).vsel = "") =>
                  IF FallbackFor(t) # ""
                  THEN /\ EnqueuedOnly(
                              [t EXCEPT !.type = "EvalNodeVariantFallback"])
                       /\ [t EXCEPT !.type = "EvalNodeVariantNoneFound"]
                              \notin TaskSet(tasks')
                  ELSE /\ EnqueuedOnly(
                              [t EXCEPT !.type = "EvalNodeVariantNoneFound"])
                       /\ [t EXCEPT !.type = "EvalNodeVariantFallback"]
                              \notin TaskSet(tasks')
       /\ LET t == DispatchedTask("EvalNodeVariantFallback")
          IN  (t.type # "None" /\ CanContributeSpecs(graph, t.node)) =>
                  IF FallbackFor(t) # ""
                  THEN \E i \in ArcCallsFrom(t.node, "Variant") :
                           calls'[i].site
                               = MkSite(graph[t.node].ls,
                                        AppendVariantSelection(
                                            graph[t.node].path, t.vsetName,
                                            FallbackFor(t)))
                  ELSE EnqueuedOnly(
                           [t EXCEPT !.type = "EvalNodeVariantNoneFound"])]_vars

\* A variant set of the root node went from the authored task to the
\* fallback task and got the Variant node of the fallback, and another set of
\* the root node, with no fallback, went to the none-found task.
C29_Witness ==
    /\ pc = "loop"
    /\ \E i, j \in 1..Len(dispatched) :
           /\ i < j
           /\ dispatched[i].type = "EvalNodeVariantAuthored"
           /\ dispatched[i].node = RootIdx
           /\ dispatched[j]
                  = [dispatched[i] EXCEPT !.type = "EvalNodeVariantFallback"]
           /\ \E n \in ChildSet(graph, RootIdx) :
                  /\ graph[n].arcType = "Variant"
                  /\ GetVariantSelection(graph[n].path)[1]
                         = dispatched[i].vsetName
    /\ \E i \in 1..Len(dispatched) :
           /\ dispatched[i].type = "EvalNodeVariantAuthored"
           /\ dispatched[i].node = RootIdx
           /\ [dispatched[i] EXCEPT !.type = "EvalNodeVariantNoneFound"]
                  \in TaskSet(tasks)

(***************************************************************************)
(* C30: the retry of the variant tasks after a Variant arc.                *)
(***************************************************************************)
\* The task the step just taken dispatched, if it is one that may add a
\* Variant arc, NoneTask otherwise.
VariantArcTask ==
    IF DispatchedTask("EvalNodeVariantAuthored").type # "None"
    THEN DispatchedTask("EvalNodeVariantAuthored")
    ELSE DispatchedTask("EvalNodeVariantFallback")

\* The step just taken added a Variant node beneath node n.
VariantNodeAdded(n) ==
    \E i \in ArcCallsFrom(n, "Variant") : calls'[i].ret # NoNode

\* C30: after a step of the task loop in which _AddVariantArc has added a
\* Variant node, no EvalNodeVariantFallback or EvalNodeVariantNoneFound task
\* is pending; after a step that dispatched an authored or fallback task and
\* added no Variant node, every task that was pending beside the dispatched
\* one is still pending with its type.
C30_RetryAfterVariantArc ==
    [][LET t == VariantArcTask
       IN  t.type # "None" =>
               IF VariantNodeAdded(t.node)
               THEN PendingTypes(tasks') \cap RetriedTypes = {}
               ELSE \A u \in TaskSet(PopTask(TopIndexer).tasks) :
                        Cardinality({i \in 1..Len(tasks') : tasks'[i] = u})
                            >= Cardinality(
                                   {i \in 1..Len(PopTask(TopIndexer).tasks) :
                                       PopTask(TopIndexer).tasks[i] = u})]_vars

\* The last step added a Variant node, and a task that had been dispatched as
\* an authored task before is pending as an authored task again.
C30_Witness ==
    /\ pc = "loop"
    /\ dispatched # << >>
    /\ LastDispatched.type
           \in {"EvalNodeVariantAuthored", "EvalNodeVariantFallback"}
    /\ \E i \in 1..Len(calls) :
           /\ calls[i].frames = 0
           /\ calls[i].arcType = "Variant"
           /\ calls[i].parent = LastDispatched.node
           /\ calls[i].ret # NoNode
    /\ \E i \in 1..Len(dispatched) - 1 :
           /\ dispatched[i].type = "EvalNodeVariantAuthored"
           /\ dispatched[i] \in TaskSet(tasks)
    /\ PendingTypes(tasks) \cap RetriedTypes = {}

(***************************************************************************)
(* C31: one selection per variant set of a prim.                           *)
(***************************************************************************)
\* The prim a Variant node selects a variant of, as a path in the namespace
\* of node a, an ancestor of n or n itself: the prim path of n's path at
\* introduction, mapped up arc by arc.
RECURSIVE VariantPrimAt(_, _, _, _)
VariantPrimAt(g, n, a, p) ==
    IF n = a \/ IsEmptyPath(p) THEN p
    ELSE VariantPrimAt(g, g[n].parent, a,
                       MapSourceToTarget(g[n].mapToParent, p))

\* The pairs of Variant nodes introduced at the same namespace depth for the
\* same variant set of the same prim: the prims they select for are the same
\* path at some node above both.
SamePrimVariantNodes(g) ==
    {pr \in (1..Len(g)) \X (1..Len(g)) :
        /\ pr[1] < pr[2]
        /\ g[pr[1]].arcType = "Variant" /\ g[pr[2]].arcType = "Variant"
        /\ GetDepthBelowIntroduction(g, pr[1])
               = GetDepthBelowIntroduction(g, pr[2])
        /\ GetVariantSelection(GetPathAtIntroduction(g, pr[1]))[1]
               = GetVariantSelection(GetPathAtIntroduction(g, pr[2]))[1]
        /\ \E a \in AncestorsOf(g, pr[1]) \cap AncestorsOf(g, pr[2]) :
               /\ ~IsEmptyPath(VariantPrimAt(g, pr[1], a,
                      GetPrimPath(GetPathAtIntroduction(g, pr[1]))))
               /\ VariantPrimAt(g, pr[1], a,
                      GetPrimPath(GetPathAtIntroduction(g, pr[1])))
                    = VariantPrimAt(g, pr[2], a,
                          GetPrimPath(GetPathAtIntroduction(g, pr[2])))}

\* C31: when the queue has drained, any two Variant nodes introduced at the
\* same namespace depth for the same variant set of the same prim carry the
\* same selection.
C31_OneSelectionPerSet ==
    pc = "done" =>
        \A pr \in SamePrimVariantNodes(graph) :
            GetVariantSelection(GetPathAtIntroduction(graph, pr[1]))[2]
                = GetVariantSelection(GetPathAtIntroduction(graph, pr[2]))[2]

(***************************************************************************)
(* C32: the order of the payload and variant tasks among themselves.       *)
(***************************************************************************)
\* The task types ordered by node strength.
StrengthOrderedTypes ==
    {"EvalNodePayload", "EvalNodeVariantAuthored", "EvalNodeVariantFallback"}

\* The pending tasks of the type of t, other than t.
PendingLike(t) == {u \in TaskSet(tasks) : u.type = t.type /\ u # t}

\* C32: when a step pops an EvalNodePayload, EvalNodeVariantAuthored or
\* EvalNodeVariantFallback task, its node is stronger than the node of every
\* other pending task of its type, and a pending variant task of its type on
\* its own node has a higher vsetNum.  (Between tasks of different types the
\* type decides.)
C32_StrongestFirst ==
    [][\A type \in StrengthOrderedTypes :
          LET t == DispatchedTask(type)
          IN  t.type # "None" =>
                  \A u \in PendingLike(t) :
                      IF u.node # t.node
                      THEN PcpCompareNodeStrength(graph, t.node, u.node) = -1
                      ELSE type # "EvalNodePayload"
                               => t.vsetNum < u.vsetNum]_vars

\* The latest step popped a variant task while a task of its type was pending
\* on a weaker node and another on its own node, both still pending.
C32_Witness ==
    /\ dispatched # << >>
    /\ LastDispatched.type \in StrengthOrderedTypes
    /\ \E u, w \in TaskSet(tasks) :
           /\ u.type = LastDispatched.type /\ w.type = LastDispatched.type
           /\ u.node = LastDispatched.node
           /\ u.vsetNum > LastDispatched.vsetNum
           /\ w.node # LastDispatched.node
           /\ PcpCompareNodeStrength(graph, LastDispatched.node, w.node) = -1

(***************************************************************************)
(* C33: implied classes of descendants before those of their ancestors.    *)
(***************************************************************************)
\* The pending EvalImpliedClasses tasks.
PendingImpliedClasses ==
    {u \in TaskSet(tasks) : u.type = "EvalImpliedClasses"}

\* C33: every node but the root has a parent of a smaller pool index, in the
\* graph the build starts from (the parent's index, cloned), and after every
\* step, whether it inserted leaves or grafted sub-graphs; and when the next
\* task to pop is an EvalImpliedClasses task, no EvalImpliedClasses task is
\* pending for a descendant of its node.
C33_DescendantsFirst ==
    /\ \A n \in 1..Len(graph) :
           n # RootIdx => graph[n].parent \in 1..(n - 1)
    /\ pc = "loop" =>
           LET t == PopTaskResult(TopIndexer)
           IN  t.type = "EvalImpliedClasses" =>
                   \A u \in PendingImpliedClasses :
                       t.node \notin AncestorsOf(graph, u.node)

\* EvalImpliedClasses tasks are pending for a node and for one of its
\* ancestors, and the next task to pop is the one of the descendant.
C33_Witness ==
    /\ pc = "loop"
    /\ PopTaskResult(TopIndexer).type = "EvalImpliedClasses"
    /\ \E u \in PendingImpliedClasses :
           u.node \in AncestorsOf(graph, PopTaskResult(TopIndexer).node)

(***************************************************************************)
(* C34: permission enforcement.                                            *)
(***************************************************************************)
\* The weakest node that can contribute specs and is not public, NoNode when
\* there is none.
WeakestPrivateNode(g) ==
    LET private == {n \in 1..Len(g) : /\ CanContributeSpecs(g, n)
                                      /\ g[n].permission # "Public"}
    IN  IF private = {} THEN NoNode
        ELSE CHOOSE n \in private :
                 \A m \in private : PcpCompareNodeStrength(g, m, n) <= 0

\* The nodes that can contribute specs and are strictly stronger than the
\* weakest private node.
OverPrivate(g) ==
    IF WeakestPrivateNode(g) = NoNode THEN {}
    ELSE {n \in 1..Len(g) :
             /\ CanContributeSpecs(g, n)
             /\ PcpCompareNodeStrength(g, n, WeakestPrivateNode(g)) = -1}

\* The graph with the nodes over the private node marked restricted.
RestrictedOverPrivate(g) ==
    [n \in 1..Len(g) |->
        [g[n] EXCEPT !.restricted = @ \/ n \in OverPrivate(g)]]

\* The errors that the step just taken added to allErrors.
ErrorsAdded == SubSeq(allErrors', Len(allErrors) + 1, Len(allErrors'))

\* C34: the step that ends the build of a scene that is not in USD mode
\* marks as restricted just the nodes that can contribute specs and are
\* strictly stronger than the weakest private node that can (the graph is
\* then finalized), and records PrimPermissionDenied once for each of them
\* whose site has a spec, and nothing else.
C34_PermissionsEnforced ==
    [][(pc = "loop" /\ pc' = "done" /\ ~Scene(inputs).usd) =>
          /\ graph' = Finalize(RestrictedOverPrivate(graph))
          /\ \A i \in 1..Len(ErrorsAdded) :
                 ErrorsAdded[i].type = "PrimPermissionDenied"
          /\ \A s \in {NodeSite(graph, n) : n \in 1..Len(graph)} :
                 Occurrences(ErrorsAdded, MkError("PrimPermissionDenied", s))
                     = Cardinality(
                           {n \in OverPrivate(graph) :
                               /\ NodeSite(graph, n) = s
                               /\ PcpComposeSiteHasPrimSpecs(s.ls, s.path)})
          /\ Len(ErrorsAdded)
                 = Cardinality(
                       {n \in OverPrivate(graph) :
                           PcpComposeSiteHasPrimSpecs(graph[n].ls,
                                                      graph[n].path)})]_vars

\* A finished index with a private node that is not restricted, a stronger
\* node that is, with the error for it, and a weaker node that is not.
C34_Witness ==
    /\ pc = "done"
    /\ \E p, n, w \in 1..Len(graph) :
           /\ graph[p].permission = "Private" /\ ~graph[p].restricted
           /\ ~graph[p].inert
           /\ PcpCompareNodeStrength(graph, n, p) = -1
           /\ graph[n].restricted
           /\ CountErrors(allErrors, "PrimPermissionDenied") >= 1
           /\ PcpCompareNodeStrength(graph, p, w) = -1
           /\ ~graph[w].restricted /\ ~graph[w].inert /\ ~graph[w].culled

(***************************************************************************)
(* C35: arcs to private sites.                                             *)
(***************************************************************************)
\* The _AddArc calls of the latest step, in nested builds too, that returned
\* a node whose permission is Private.
CallsToPrivate ==
    {i \in 1..Len(calls) :
        calls[i].ret # NoNode /\ calls[i].retPermission = "Private"}

\* C35: an _AddArc call that returns a node whose permission is Private has
\* recorded ArcPermissionDenied for the site once, has added the node (with
\* the sub-tree beneath it) to the graph, and returns with no node of that
\* sub-tree left that is not inert.
C35_PrivateArcInert ==
    \A i \in CallsToPrivate :
        /\ Occurrences(calls[i].newErrors,
                       MkError("ArcPermissionDenied", calls[i].site)) = 1
        /\ calls[i].added >= 1
        /\ calls[i].liveBelowRet = 0

\* The latest step of the outermost build added a reference to a private prim
\* with a node beneath it, and both nodes are in the graph, inert.
C35_Witness ==
    \E i \in CallsToPrivate :
        /\ calls[i].arcType = "Reference"
        /\ calls[i].frames = 0
        /\ calls[i].added >= 2
        /\ \A n \in SubtreeSet(graph, calls[i].ret) : graph[n].inert

(***************************************************************************)
(* C36: arcs to sites the index already has.                               *)
(***************************************************************************)
\* The path of the call's site in the namespace of the graph at level k of
\* the stack-frame chain: at each frame crossed, the path the frame's graph
\* was requested for, with the path of that graph's root replaced.
RECURSIVE TranslatedPath(_, _)
TranslatedPath(c, k) ==
    IF k = 1 THEN c.site.path
    ELSE ReplacePrefix(c.levels[k - 1].requestedPath,
                       c.levels[k - 1].rootPath, TranslatedPath(c, k - 1))

\* Some graph on the chain holds a node at the call's site as translated.
HoldsDuplicate(c) ==
    \E k \in 1..Len(c.levels) :
        MkSite(c.site.ls, TranslatedPath(c, k)) \in c.levels[k].allSites

\* The calls of the latest step that were to skip duplicates and whose site
\* some graph on the chain holds already.
DuplicateCalls ==
    {i \in 1..Len(calls) :
        /\ calls[i].skipDup \/ calls[i].frameSkipDup
        /\ HoldsDuplicate(calls[i])}

\* C36 as stated: every such call adds no node, records no error and
\* enqueues no task.
C36_AsStated ==
    \A i \in DuplicateCalls :
        /\ calls[i].ret = NoNode
        /\ calls[i].unchanged
        /\ calls[i].newErrors = << >>

\* C36: every such call adds no node and enqueues no task; it records no
\* error when the cycle check lets the arc pass, and the ArcCycle error of the
\* site when it does not.
C36_DuplicateSkipped ==
    \A i \in DuplicateCalls :
        /\ calls[i].ret = NoNode
        /\ calls[i].unchanged
        /\ calls[i].newErrors
               = IF calls[i].cycle
                 THEN << MkError("ArcCycle", calls[i].site) >> ELSE << >>

\* A call in a nested build found its site, translated, in the graph of the
\* enclosing frame.
C36_Witness ==
    \E i \in DuplicateCalls :
        /\ ~calls[i].cycle
        /\ calls[i].frames >= 1
        /\ calls[i].site \notin calls[i].levels[1].allSites
        /\ calls[i].ret = NoNode

(***************************************************************************)
(* C37: no direct opinions at the source of a relocation.                  *)
(***************************************************************************)
\* The calls of the latest step that asked for a node contributing direct
\* opinions, with its ancestral opinions, at a site at or above a source of
\* the relocations of the site's layer stack, and that returned a node.
CallsOntoRelocationSource ==
    {i \in 1..Len(calls) :
        /\ calls[i].direct /\ calls[i].ancestral
        /\ \E r \in RelocatesSourceToTarget(calls[i].site.ls) :
               HasPrefix(r[1], calls[i].site.path)
        /\ calls[i].ret # NoNode}

\* C37: the node such a call returns is inert.
C37_RelocationSourceInert ==
    \A i \in CallsOntoRelocationSource : calls[i].retInert

\* The outermost build added a reference to the source of a relocation of
\* the referenced layer stack; the node is in the graph, inert.
C37_Witness ==
    \E i \in CallsOntoRelocationSource :
        /\ calls[i].frames = 0
        /\ calls[i].arcType = "Reference"
        /\ calls[i].retPermission = "Public"
        /\ graph[calls[i].ret].inert
        /\ NodeSite(graph, calls[i].ret) = calls[i].site

(***************************************************************************)
(* C38: _AddClassBasedArc is idempotent.  Asked for a class-based arc     *)
(* whose derived site the parent already holds as a child (under a         *)
(* Relocate parent: a child of the same arc type and map to the parent     *)
(* whose origin is as deep below its introduction), it returns one of      *)
(* those children and adds no node, no task and no error.                  *)
(***************************************************************************)
\* The requests for a class-based arc that the graph gives rise to: the arc
\* type and the map of a class-based node, from any parent and any origin.
ClassArcRequests ==
    {[arcType |-> graph[c].arcType, map |-> graph[c].mapToParent,
      arcNum |-> graph[c].siblingNum, parent |-> p, origin |-> o] :
        c \in {m \in 1..Len(graph) : PcpIsClassBasedArc(graph[m].arcType)},
        p \in 1..Len(graph), o \in 1..Len(graph)}

RequestedSite(q) ==
    MkSite(graph[q.parent].ls,
           _DetermineInheritPath(graph[q.parent].path, q.map))

\* The children of the parent that already stand for the requested arc.
AlreadyThere(q) ==
    {c \in ChildSet(graph, q.parent) :
        IF graph[q.parent].arcType = "Relocate"
        THEN /\ graph[c].arcType = q.arcType
             /\ graph[c].mapToParent = q.map
             /\ GetDepthBelowIntroduction(graph, graph[c].origin)
                    = GetDepthBelowIntroduction(graph, q.origin)
        ELSE NodeSite(graph, c) = RequestedSite(q)}

Requested(q) ==
    _AddClassBasedArc(TopIndexer, q.arcType, q.parent, q.origin, q.map,
                      q.arcNum, NoSite)

C38_ClassBasedArcIdempotent ==
    \A q \in ClassArcRequests :
        (~IsEmptyPath(RequestedSite(q).path) /\ AlreadyThere(q) # {}) =>
            /\ Requested(q).ret \in AlreadyThere(q)
            /\ Requested(q).g = graph
            /\ Requested(q).tasks = tasks
            /\ Requested(q).allErrors = allErrors
            /\ Requested(q).errors = errors

\* A graph that holds an inherit node beneath a Reference node and an implied
\* one beneath a Relocate node: the request that made either, made again,
\* returns that node and leaves the graph as it is.
RemadeRequest(c) ==
    [arcType |-> graph[c].arcType, map |-> graph[c].mapToParent,
     arcNum |-> graph[c].siblingNum, parent |-> graph[c].parent,
     origin |-> graph[c].origin]

C38_Witness ==
    /\ dispatched # << >>
    /\ \E c, d \in 1..Len(graph) :
           /\ graph[c].arcType = "Inherit" /\ graph[d].arcType = "Inherit"
           /\ graph[c].parent # NoNode /\ graph[d].parent # NoNode
           /\ graph[graph[c].parent].arcType = "Reference"
           /\ graph[graph[d].parent].arcType = "Relocate"
           /\ ~IsEmptyPath(RequestedSite(RemadeRequest(c)).path)
           /\ ~IsEmptyPath(RequestedSite(RemadeRequest(d)).path)
           /\ AlreadyThere(RemadeRequest(c)) = {c}
           /\ AlreadyThere(RemadeRequest(d)) = {d}
           /\ Requested(RemadeRequest(c)).ret = c
           /\ Requested(RemadeRequest(d)).ret = d
           /\ Requested(RemadeRequest(d)).g = graph
(***************************************************************************)
(* C39: payloads last.                                                     *)
(***************************************************************************)
\* C39: when a step pops an EvalNodePayload task, no task of another type is
\* pending.
C39_PayloadWhenNothingElsePending ==
    [][DispatchedTask("EvalNodePayload").type # "None" =>
           \A u \in TaskSet(tasks) : u.type = "EvalNodePayload"]_vars

(***************************************************************************)
(* C40: a node that cannot contribute specs introduces no arcs.            *)
(***************************************************************************)
\* The tasks that evaluate the arcs authored at a node.
DirectArcTypes ==
    {"EvalNodeReferences", "EvalNodePayload", "EvalNodeInherits",
     "EvalNodeSpecializes", "EvalNodeVariantSets", "EvalNodeVariantAuthored",
     "EvalNodeVariantFallback"}

\* The nodes of the graph that cannot contribute specs.
SilentNodes == {n \in 1..Len(graph) : ~CanContributeSpecs(graph, n)}

\* The variant sets the scenes name, and the numbers they are given.
VariantSetNames == {"v", "w", "standin"}

\* C40: a step that pops a task of one of these types for a node that cannot
\* contribute specs adds no node, leaves the nodes as they are, enqueues no
\* task and records no error; and each of the seven evaluators, applied to
\* such a node of the graph the step starts from, returns the indexer as it
\* was.
C40_NoArcsFromSilentNode ==
    [][/\ \A type \in DirectArcTypes :
             LET t == DispatchedTask(type)
             IN  (t.type # "None" /\ ~CanContributeSpecs(graph, t.node)) =>
                     /\ graph' = graph
                     /\ TaskSet(tasks') = TaskSet(tasks) \ {t}
                     /\ Len(tasks') = Len(tasks) - 1
                     /\ allErrors' = allErrors
       /\ \A n \in SilentNodes :
              /\ _EvalNodeReferences(TopIndexer, n) = TopIndexer
              /\ _EvalNodePayloads(TopIndexer, n) = TopIndexer
              /\ _EvalNodeInherits(TopIndexer, n) = TopIndexer
              /\ _EvalNodeSpecializes(TopIndexer, n) = TopIndexer
              /\ _EvalNodeVariantSets(TopIndexer, n) = TopIndexer
              /\ \A vset \in VariantSetNames, vsetNum \in 0..1 :
                     /\ _EvalNodeAuthoredVariant(TopIndexer, n, vset, vsetNum)
                            = TopIndexer
                     /\ _EvalNodeFallbackVariant(TopIndexer, n, vset, vsetNum)
                            = TopIndexer]_vars

\* The tasks for references, payloads, inherits, specializes and variant sets
\* have all been popped for a node that cannot contribute specs, whose site
\* authors an arc of each kind, and the node has no child.
C40_Witness ==
    \E n \in SilentNodes :
        /\ \A type \in DirectArcTypes \ {"EvalNodeVariantAuthored",
                                          "EvalNodeVariantFallback"} :
               \E i \in 1..Len(dispatched) :
                   dispatched[i].type = type /\ dispatched[i].node = n
        /\ LastDispatched.type = "EvalNodeVariantSets"
        /\ LastDispatched.node = n
        /\ PcpComposeSiteReferences(graph[n].ls, graph[n].path) # << >>
        /\ PcpComposeSitePayloads(graph[n].ls, graph[n].path) # << >>
        /\ PcpComposeSiteInherits(graph[n].ls, graph[n].path) # << >>
        /\ PcpComposeSiteSpecializes(graph[n].ls, graph[n].path) # << >>
        /\ PcpComposeSiteVariantSets(graph[n].ls, graph[n].path) # << >>
        /\ ChildSet(graph, n) = {}
        /\ \A u \in TaskSet(tasks) : u.node # n
====
